---- MODULE Spec2Model ----
(***************************************************************************)
(* SignMeLad SDK (src/server.ts and its collaborators): signature          *)
(* verification, token issuance and token validation, as a state machine.  *)
(*                                                                         *)
(* JavaScript strings are values named by a handle (a TLA+ string); the    *)
(* strings whose characters the code inspects (signatures, public keys,    *)
(* messages) have their UTF-16 code units in tables.  Exceptions are       *)
(* results with threw = TRUE.  The external primitives (bs58, PublicKey,   *)
(* tweetnacl, TextEncoder, jsonwebtoken) are modelled by what they compute *)
(* at the call sites of the repository.                                    *)
(***************************************************************************)
EXTENDS Integers, Sequences, FiniteSets, TLC

VARIABLES
  now,        \* Date.now(), in milliseconds
  issued,     \* the token in circulation: the one the client was last given
  stored,     \* whether the client still keeps its token (it has not logged out)
  last,       \* the call made at the current instant, with its outcome
  gate,       \* the last request that went through authMiddleware, with its outcome
  generated,  \* the messages generateMessage has produced, with their inputs
  client,     \* the browser side: the wallet, the SolanaAuth instances, their calls
  logger,     \* the default logger of the process, and what it last emitted
  window,     \* the global object of the page and the wallet providers on it
  demo        \* the demo: the page's session state and the backend's last response

vars == <<now, issued, stored, last, gate, generated, client, logger, window, demo>>

(***************************************************************************)
(* Generic helpers                                                         *)
(***************************************************************************)
Reverse(s) == [i \in 1..Len(s) |-> s[Len(s) + 1 - i]]

\* how many times x stands at the front of s
LeadingCount(s, x) ==
  CHOOSE k \in 0..Len(s) :
    /\ \A i \in 1..k : s[i] = x
    /\ (k = Len(s) \/ s[k + 1] # x)

Repeat(x, n) == [i \in 1..n |-> x]

DropFirst(s, n) == SubSeq(s, n + 1, Len(s))

\* digits, least significant first, of (value(d) * mul + carry) in base `base`
RECURSIVE MulAddLE(_, _, _, _)
MulAddLE(d, mul, carry, base) ==
  IF d = <<>>
  THEN IF carry = 0 THEN <<>>
       ELSE <<carry % base>> \o MulAddLE(<<>>, mul, carry \div base, base)
  ELSE LET v == Head(d) * mul + carry
       IN <<v % base>> \o MulAddLE(Tail(d), mul, v \div base, base)

\* the conversion loop of base-x (for each source digit, the accumulator is
\* multiplied by the source base and the digit added): src is most
\* significant first in base fromBase, the result least significant first in
\* base toBase
RECURSIVE ConvertLE(_, _, _, _)
ConvertLE(src, acc, fromBase, toBase) ==
  IF src = <<>> THEN acc
  ELSE LET next == MulAddLE(acc, fromBase, Head(src), toBase)
       IN IF Len(next) = 0
          THEN ConvertLE(Tail(src), <<>>, fromBase, toBase)
          ELSE ConvertLE(Tail(src), next, fromBase, toBase)

\* the digits of src (most significant first) taken two at a time: the same
\* number in base `base` squared
Pairs(src, base) ==
  LET n == Len(src)
      m == (n + 1) \div 2
  IN [j \in 1..m |->
        LET lo == n - 2 * (m - j)
        IN (IF lo > 1 THEN src[lo - 1] * base ELSE 0) + src[lo]]

\* the digits (least significant first) of a number given by its two-digit
\* limbs, least significant first, without a leading zero digit
Unpair(limbs, base) ==
  LET n == Len(limbs)
      len == IF n = 0 THEN 0 ELSE IF limbs[n] < base THEN 2 * n - 1 ELSE 2 * n
  IN [i \in 1..len |->
        IF i % 2 = 1 THEN limbs[(i + 1) \div 2] % base
        ELSE limbs[i \div 2] \div base]

\* src, most significant first in base fromBase without leading zero digits,
\* as digits in base toBase, most significant first
ConvertBase(src, fromBase, toBase) ==
  Reverse(Unpair(ConvertLE(Pairs(src, fromBase), <<>>,
                           fromBase * fromBase, toBase * toBase), toBase))

(***************************************************************************)
(* Results of calls that may throw                                         *)
(***************************************************************************)
NoBytes == <<>>

OkBytes(b) == [threw |-> FALSE, bytes |-> b]

ThrowBytes == [threw |-> TRUE, bytes |-> NoBytes]

(***************************************************************************)
(* bs58 (base-x over the Bitcoin alphabet), on UTF-16 code units            *)
(***************************************************************************)
\* '123456789ABCDEFGHJKLMNPQRSTUVWXYZabcdefghijkmnopqrstuvwxyz'
ALPHABET ==
  <<49, 50, 51, 52, 53, 54, 55, 56, 57, 65, 66, 67, 68, 69, 70, 71, 72, 74,
    75, 76, 77, 78, 80, 81, 82, 83, 84, 85, 86, 87, 88, 89, 90, 97, 98, 99,
    100, 101, 102, 103, 104, 105, 106, 107, 109, 110, 111, 112, 113, 114,
    115, 116, 117, 118, 119, 120, 121, 122>>

BASE == Len(ALPHABET)

ByteBase == 256

IsBase58Unit(u) == \E i \in 1..BASE : ALPHABET[i] = u

DigitOf(u) == (CHOOSE i \in 1..BASE : ALPHABET[i] = u) - 1

\* bs58.encode: one '1' per leading zero byte, then the number in base 58
Bs58EncodeBytes(bytes) ==
  LET zeroes == LeadingCount(bytes, 0)
      digits == ConvertBase(DropFirst(bytes, zeroes), ByteBase, BASE)
  IN Repeat(ALPHABET[1], zeroes) \o [i \in 1..Len(digits) |-> ALPHABET[digits[i] + 1]]

\* bs58.decode: throws on a character outside the alphabet; one zero byte
\* per leading '1', then the number in base 256
Bs58DecodeUnits(units) ==
  IF \E i \in 1..Len(units) : ~IsBase58Unit(units[i])
  THEN ThrowBytes
  ELSE LET zeroes == LeadingCount(units, ALPHABET[1])
           rest == DropFirst(units, zeroes)
           digits == [i \in 1..Len(rest) |-> DigitOf(rest[i])]
       IN OkBytes(Repeat(0, zeroes) \o ConvertBase(digits, BASE, ByteBase))

(***************************************************************************)
(* TextEncoder.encode: UTF-16 code units to UTF-8 bytes.  An unpaired      *)
(* surrogate is encoded as U+FFFD.                                         *)
(***************************************************************************)
IsHighSurrogate(u) == u >= 55296 /\ u <= 56319

IsLowSurrogate(u) == u >= 56320 /\ u <= 57343

Utf8OfCodePoint(c) ==
  IF c < 128 THEN <<c>>
  ELSE IF c < 2048 THEN <<192 + (c \div 64), 128 + (c % 64)>>
  ELSE IF c < 65536
       THEN <<224 + (c \div 4096), 128 + ((c \div 64) % 64), 128 + (c % 64)>>
  ELSE <<240 + (c \div 262144), 128 + ((c \div 4096) % 64),
         128 + ((c \div 64) % 64), 128 + (c % 64)>>

ReplacementCharacter == 65533

RECURSIVE Utf8Encode(_)
Utf8Encode(units) ==
  IF units = <<>> THEN <<>>
  ELSE LET u == Head(units)
       IN IF IsHighSurrogate(u) /\ Len(units) >= 2 /\ IsLowSurrogate(units[2])
          THEN Utf8OfCodePoint(65536 + (u - 55296) * 1024 + (units[2] - 56320))
                 \o Utf8Encode(DropFirst(units, 2))
          ELSE IF IsHighSurrogate(u) \/ IsLowSurrogate(u)
          THEN Utf8OfCodePoint(ReplacementCharacter) \o Utf8Encode(Tail(units))
          ELSE Utf8OfCodePoint(u) \o Utf8Encode(Tail(units))

(***************************************************************************)
(* Ed25519 (tweetnacl), as an ideal signature scheme: a signature verifies *)
(* exactly when it is the signature of those bytes under the secret key of *)
(* that public key.                                                        *)
(***************************************************************************)
PublicKeyLength == 32

SignatureLength == 64

\* the key pairs of the users (nacl.sign.keyPair())
SecretKeys == {1, 2}

\* publicKeyOf(sk): 32 bytes, different for different keys; key 1 starts
\* with a zero byte
PublicKeyBytes(sk) ==
  [i \in 1..PublicKeyLength |-> ((sk - 1) * 97 + (i - 1) * 13) % ByteBase]

\* nacl.sign.detached(messageBytes, secretKey): 64 bytes determined by, and
\* determining, the key and the message bytes
NaclSignDetached(messageBytes, sk) ==
  <<sk, Len(messageBytes)>> \o messageBytes
     \o Repeat(0, SignatureLength - 2 - Len(messageBytes))

\* nacl.sign.detached.verify(msg, sig, publicKey): throws on a wrong size
NaclVerify(messageBytes, signatureBytes, publicKeyBytes) ==
  IF Len(signatureBytes) # SignatureLength
  THEN [threw |-> TRUE, value |-> FALSE]
  ELSE IF Len(publicKeyBytes) # PublicKeyLength
  THEN [threw |-> TRUE, value |-> FALSE]
  ELSE [threw |-> FALSE,
        value |-> \E sk \in SecretKeys :
                     /\ publicKeyBytes = PublicKeyBytes(sk)
                     /\ signatureBytes = NaclSignDetached(messageBytes, sk)]

(***************************************************************************)
(* The strings of the model                                                *)
(***************************************************************************)
\* messages: handle -> UTF-16 code units
MessageUnits ==
  [m \in {"hello", "hellp", "\\uD800", "\\uFFFD", ""} |->
     CASE m = "hello" -> <<104, 101, 108, 108, 111>>
       [] m = "hellp" -> <<104, 101, 108, 108, 112>>
       [] m = "\\uD800" -> <<55296>>
       [] m = "\\uFFFD" -> <<65533>>
       [] OTHER -> <<>>]

Messages == DOMAIN MessageUnits

\* new TextEncoder().encode(message)
TextEncode(message) == Utf8Encode(MessageUnits[message])

KeyHandle(sk) == IF sk = 1 THEN "pkAlice" ELSE "pkBob"

\* public key strings: the users' keys in base58, and malformed ones
PublicKeyUnits ==
  [p \in {"pkAlice", "pkBob", "invalid-public-key", "abc", ""} |->
     CASE p = "pkAlice" -> Bs58EncodeBytes(PublicKeyBytes(1))
       [] p = "pkBob" -> Bs58EncodeBytes(PublicKeyBytes(2))
       [] p = "invalid-public-key" ->
            <<105, 110, 118, 97, 108, 105, 100, 45, 112, 117, 98, 108, 105,
              99, 45, 107, 101, 121>>
       [] p = "abc" -> <<97, 98, 99>>
       [] OTHER -> <<>>]

PublicKeyStrings == DOMAIN PublicKeyUnits

\* the messages the users have signed, and the signature string of each
SignedBy == {<<1, "hello">>, <<2, "hello">>, <<1, "\\uFFFD">>}

SigHandle(sk, m) ==
  CASE sk = 1 /\ m = "hello" -> "sig(Alice,hello)"
    [] sk = 2 /\ m = "hello" -> "sig(Bob,hello)"
    [] OTHER -> "sig(Alice,\\uFFFD)"

\* createRealSignature(message): bs58.encode(nacl.sign.detached(bytes, sk))
CreateRealSignature(m, sk) == Bs58EncodeBytes(NaclSignDetached(TextEncode(m), sk))

SignatureUnits ==
  [s \in {"sig(Alice,hello)", "sig(Bob,hello)", "sig(Alice,\\uFFFD)",
          "invalid-signature", "abc", ""} |->
     CASE s = "sig(Alice,hello)" -> CreateRealSignature("hello", 1)
       [] s = "sig(Bob,hello)" -> CreateRealSignature("hello", 2)
       [] s = "sig(Alice,\\uFFFD)" -> CreateRealSignature("\\uFFFD", 1)
       [] s = "invalid-signature" ->
            <<105, 110, 118, 97, 108, 105, 100, 45, 115, 105, 103, 110, 97,
              116, 117, 114, 101>>
       [] s = "abc" -> <<97, 98, 99>>
       [] OTHER -> <<>>]

SignatureStrings == DOMAIN SignatureUnits

\* bs58.decode(signature), per signature string
SignatureDecoded == [s \in SignatureStrings |-> Bs58DecodeUnits(SignatureUnits[s])]

\* new PublicKey(publicKey).toBytes(): throws unless the string is base58 of
\* exactly 32 bytes
PublicKeyDecoded ==
  [p \in PublicKeyStrings |->
     LET d == Bs58DecodeUnits(PublicKeyUnits[p])
     IN IF d.threw \/ Len(d.bytes) # PublicKeyLength THEN ThrowBytes ELSE d]

MessageBytes == [m \in Messages |-> TextEncode(m)]

(***************************************************************************)
(* src/server.ts: verifySignature                                          *)
(***************************************************************************)
Returned(b) == [threw |-> FALSE, value |-> b]

Thrown == [threw |-> TRUE, value |-> FALSE]

\* the body of the try block: the first step that throws ends it
VerifySignatureTry(signature, message, publicKey) ==
  LET messageBytes == MessageBytes[message]
      signatureBytes == SignatureDecoded[signature]
      publicKeyBytes == PublicKeyDecoded[publicKey]
  IN IF signatureBytes.threw THEN Thrown
     ELSE IF publicKeyBytes.threw THEN Thrown
     ELSE NaclVerify(messageBytes, signatureBytes.bytes, publicKeyBytes.bytes)

\* a variant without the catch clause: the exception reaches the caller
VerifySignatureUncaught(signature, message, publicKey) ==
  VerifySignatureTry(signature, message, publicKey)

\* a variant that checks the signature against the key only
VerifySignatureAnyMessage(signature, message, publicKey) ==
  LET r == [m \in Messages |-> VerifySignatureTry(signature, m, publicKey)]
  IN Returned(\E m \in Messages : ~r[m].threw /\ r[m].value)

\* verifySignature(signature, message, publicKey): try { ... } catch { return false }
VerifySignature(signature, message, publicKey) ==
  LET r == VerifySignatureTry(signature, message, publicKey)
  IN IF r.threw THEN Returned(FALSE) ELSE Returned(r.value)

(***************************************************************************)
(* JavaScript values and objects                                           *)
(***************************************************************************)
Undefined == [t |-> "undefined", n |-> 0, s |-> ""]

Num(n) == [t |-> "number", n |-> n, s |-> ""]

Str(s) == [t |-> "string", n |-> 0, s |-> s]

\* !!v
Truthy(v) == (v.t = "number" /\ v.n # 0) \/ (v.t = "string" /\ v.s # "")

\* an object is a set of <<key, value>> pairs, one per key
Keys(obj) == {e[1] : e \in obj}

Get(obj, k) == IF k \in Keys(obj) THEN (CHOOSE e \in obj : e[1] = k)[2] ELSE Undefined

Put(obj, k, v) == {e \in obj : e[1] # k} \cup {<<k, v>>}

\* { ...base, ...over }
Spread(base, over) == {e \in base : e[1] \notin Keys(over)} \cup over

(***************************************************************************)
(* jsonwebtoken: sign and verify with a shared secret                      *)
(***************************************************************************)
MsPerSecond == 1000

\* Math.floor(Date.now() / 1000)
ClockTimestamp(clock) == clock \div MsPerSecond

\* ms(str): the milliseconds of a time span string, or nothing
Ms(str) ==
  CASE str = "24h" -> {24 * 60 * 60 * 1000}
    [] str = "1s" -> {1000}
    [] str = "2s" -> {2000}
    [] str = "1500ms" -> {1500}
    [] str = "-1h" -> {0 - 60 * 60 * 1000}
    [] OTHER -> {}

\* timespan(time, iat): seconds since the epoch, or undefined
Timespan(time, iat) ==
  IF time.t = "number" THEN Num(iat + time.n)
  ELSE IF time.t = "string" /\ Ms(time.s) # {}
  THEN Num((iat * MsPerSecond + (CHOOSE m \in Ms(time.s) : TRUE)) \div MsPerSecond)
  ELSE Undefined

\* the signature part of a token: HMAC-SHA256 of header.payload under the
\* secret, ideal: equal exactly for equal secret and payload
Hs256(payload, secret) == [key |-> secret, body |-> payload]

Jwt(payload, secret) == [kind |-> "jwt", payload |-> payload, mac |-> Hs256(payload, secret)]

NoToken == [kind |-> "none", payload |-> {}, mac |-> Hs256({}, "")]

\* a string that is not three base64url segments of JSON: 'invalid.token.format'
MalformedToken == [kind |-> "malformed", payload |-> {}, mac |-> Hs256({}, "")]

SignOk(token) == [threw |-> FALSE, token |-> token]

SignThrow == [threw |-> TRUE, token |-> NoToken]

\* the option -> claim table of jwt.sign
OptionClaims == {<<"issuer", "iss">>, <<"audience", "aud">>, <<"subject", "sub">>}

\* jwt.sign(payload, secret, tokenOptions) at time clock; tokenOptions is an
\* object with the keys that were set
JwtSign(payload, secret, tokenOptions, clock) ==
  LET timestamp == IF Truthy(Get(payload, "iat")) THEN Get(payload, "iat").n
                   ELSE ClockTimestamp(clock)
      expiresIn == Get(tokenOptions, "expiresIn")
      exp == Timespan(expiresIn, timestamp)
      withIat == Put(payload, "iat", Num(timestamp))
      withExp == IF expiresIn.t # "undefined" THEN Put(withIat, "exp", exp) ELSE withIat
      claims == {<<oc[2], Get(tokenOptions, oc[1])>> :
                    oc \in {x \in OptionClaims : Get(tokenOptions, x[1]).t # "undefined"}}
  IN IF secret = "" THEN SignThrow
     ELSE IF \E k \in {"iat", "exp", "nbf"} :
                Get(payload, k).t \notin {"undefined", "number"}
     THEN SignThrow
     ELSE IF expiresIn.t = "string" /\ expiresIn.s = "" THEN SignThrow
     ELSE IF expiresIn.t # "undefined" /\ Get(payload, "exp").t # "undefined"
     THEN SignThrow
     ELSE IF expiresIn.t # "undefined" /\ exp.t = "undefined" THEN SignThrow
     ELSE IF \E oc \in OptionClaims :
                /\ Get(tokenOptions, oc[1]).t # "undefined"
                /\ Get(payload, oc[2]).t # "undefined"
     THEN SignThrow
     ELSE SignOk(Jwt(Spread(withExp, claims), secret))

VerifyOk(payload) == [threw |-> FALSE, name |-> "", payload |-> payload]

VerifyThrow(name) == [threw |-> TRUE, name |-> name, payload |-> {}]

\* jwt.verify(token, secret, options) at time clock; options is an object
\* (empty when the argument is omitted)
JwtVerify(token, secret, options, clock) ==
  LET payload == token.payload
      exp == Get(payload, "exp")
      audience == Get(options, "audience")
      issuer == Get(options, "issuer")
      subject == Get(options, "subject")
  IN IF token.kind # "jwt" THEN VerifyThrow("JsonWebTokenError")
     ELSE IF secret = "" THEN VerifyThrow("JsonWebTokenError")
     ELSE IF token.mac # Hs256(payload, secret) THEN VerifyThrow("JsonWebTokenError")
     ELSE IF exp.t # "undefined" /\ exp.t # "number" THEN VerifyThrow("JsonWebTokenError")
     ELSE IF exp.t = "number" /\ ClockTimestamp(clock) >= exp.n
     THEN VerifyThrow("TokenExpiredError")
     ELSE IF Truthy(audience) /\ Get(payload, "aud") # audience
     THEN VerifyThrow("JsonWebTokenError")
     ELSE IF Truthy(issuer) /\ Get(payload, "iss") # issuer
     THEN VerifyThrow("JsonWebTokenError")
     ELSE IF Truthy(subject) /\ Get(payload, "sub") # subject
     THEN VerifyThrow("JsonWebTokenError")
     ELSE VerifyOk(payload)

(***************************************************************************)
(* src/server.ts: createAuthToken and verifyAuthToken                      *)
(***************************************************************************)
\* a TokenOptions argument; passed = FALSE when the argument is omitted
Options(expiresIn, issuer, audience, subject, customClaims) ==
  [passed |-> TRUE, expiresIn |-> expiresIn, issuer |-> issuer,
   audience |-> audience, subject |-> subject, customClaims |-> customClaims]

Omitted ==
  [passed |-> FALSE, expiresIn |-> Undefined, issuer |-> Undefined,
   audience |-> Undefined, subject |-> Undefined, customClaims |-> {}]

DEFAULT_TOKEN_OPTIONS == Options(Str("24h"), Undefined, Undefined, Undefined, {})

Result(threw, error, token, claims) ==
  [threw |-> threw, error |-> error, token |-> token, claims |-> claims]

NoResult == Result(FALSE, "", NoToken, {})

\* a variant in which the AuthResult's values win over the custom claims
TokenPayloadReservedWins(authResult, options) ==
  Spread(options.customClaims,
         {<<"publicKey", Str(authResult.publicKey)>>,
          <<"timestamp", Num(authResult.timestamp)>>})

\* the payload of the token: { publicKey, timestamp, ...options.customClaims }
TokenPayload(authResult, options) ==
  Spread({<<"publicKey", Str(authResult.publicKey)>>,
          <<"timestamp", Num(authResult.timestamp)>>},
         options.customClaims)

\* a variant that lets an absent expiresIn through: the token has no exp
SignOptionsNoDefault(options) ==
  (IF options.expiresIn.t # "undefined"
   THEN {<<"expiresIn", options.expiresIn>>} ELSE {})
  \cup {<<k, options[k]>> : k \in {x \in {"issuer", "audience", "subject"} : Truthy(options[x])}}

\* a variant that drops the audience option
SignOptionsNoAudience(options) ==
  (IF options.expiresIn.t # "undefined"
   THEN {<<"expiresIn", options.expiresIn>>}
   ELSE IF Truthy(DEFAULT_TOKEN_OPTIONS.expiresIn)
   THEN {<<"expiresIn", DEFAULT_TOKEN_OPTIONS.expiresIn>>}
   ELSE {})
  \cup {<<k, options[k]>> : k \in {x \in {"issuer", "subject"} : Truthy(options[x])}}

\* the SignOptions built from the TokenOptions
SignOptions(options) ==
  (IF options.expiresIn.t # "undefined"
   THEN {<<"expiresIn", options.expiresIn>>}
   ELSE IF Truthy(DEFAULT_TOKEN_OPTIONS.expiresIn)
   THEN {<<"expiresIn", DEFAULT_TOKEN_OPTIONS.expiresIn>>}
   ELSE {})
  \cup {<<k, options[k]>> : k \in {x \in {"issuer", "audience", "subject"} : Truthy(options[x])}}

\* a variant without the signature gate
CreateAuthTokenUngated(authResult, jwtSecret, optionsArg, clock) ==
  LET options == IF optionsArg.passed THEN optionsArg ELSE DEFAULT_TOKEN_OPTIONS
      signed == JwtSign(TokenPayload(authResult, options), jwtSecret,
                        SignOptions(options), clock)
  IN IF signed.threw THEN Result(TRUE, "Error", NoToken, {})
     ELSE Result(FALSE, "", signed.token, {})

\* createAuthToken(authResult, jwtSecret, options = DEFAULT_TOKEN_OPTIONS)
CreateAuthToken(authResult, jwtSecret, optionsArg, clock) ==
  LET options == IF optionsArg.passed THEN optionsArg ELSE DEFAULT_TOKEN_OPTIONS
      isValid == VerifySignature(authResult.signature, authResult.message,
                                 authResult.publicKey)
      signed == JwtSign(TokenPayload(authResult, options), jwtSecret,
                        SignOptions(options), clock)
  IN IF isValid.threw THEN Result(TRUE, "Error", NoToken, {})
     ELSE IF ~isValid.value
     THEN Result(TRUE, "SignatureVerificationError", NoToken, {})
     ELSE IF signed.threw THEN Result(TRUE, "Error", NoToken, {})
     ELSE Result(FALSE, "", signed.token, {})

\* the options object jwt.verify reads (undefined when the argument is omitted)
VerifyOptions(optionsArg) ==
  IF optionsArg.passed
  THEN {<<k, optionsArg[k]>> : k \in {"issuer", "audience", "subject"}}
  ELSE {}

\* a variant that does not check the token's signature part
VerifyAuthTokenNoMac(token, jwtSecret, optionsArg, clock) ==
  LET decoded == JwtVerify(Jwt(token.payload, jwtSecret), jwtSecret,
                           VerifyOptions(optionsArg), clock)
  IN IF decoded.threw \/ token.kind # "jwt"
     THEN Result(TRUE, "AuthTokenError", NoToken, {})
     ELSE Result(FALSE, "", NoToken, decoded.payload)

\* a variant that ignores the expected options
VerifyAuthTokenNoExpected(token, jwtSecret, optionsArg, clock) ==
  LET decoded == JwtVerify(token, jwtSecret, {}, clock)
  IN IF decoded.threw THEN Result(TRUE, "AuthTokenError", NoToken, {})
     ELSE Result(FALSE, "", NoToken, decoded.payload)

\* a variant that consults a server-side session: a logged-out token is refused
VerifyAuthTokenSession(token, jwtSecret, optionsArg, clock) ==
  LET decoded == JwtVerify(token, jwtSecret, VerifyOptions(optionsArg), clock)
  IN IF decoded.threw \/ ~stored THEN Result(TRUE, "AuthTokenError", NoToken, {})
     ELSE Result(FALSE, "", NoToken, decoded.payload)

\* a variant that never looks at the clock: a token does not expire
VerifyAuthTokenFrozenClock(token, jwtSecret, optionsArg, clock) ==
  LET decoded == JwtVerify(token, jwtSecret, VerifyOptions(optionsArg), 0)
  IN IF decoded.threw THEN Result(TRUE, "AuthTokenError", NoToken, {})
     ELSE Result(FALSE, "", NoToken, decoded.payload)

\* verifyAuthToken(token, jwtSecret, options?)
VerifyAuthToken(token, jwtSecret, optionsArg, clock) ==
  LET decoded == JwtVerify(token, jwtSecret, VerifyOptions(optionsArg), clock)
  IN IF decoded.threw THEN Result(TRUE, "AuthTokenError", NoToken, {})
     ELSE Result(FALSE, "", NoToken, decoded.payload)

(***************************************************************************)
(* src/auth.ts: SolanaAuth.verify, the client-side copy of verifySignature *)
(***************************************************************************)
SolanaAuthVerify(signature, message, publicKey) ==
  LET messageBytes == MessageBytes[message]
      signatureBytes == SignatureDecoded[signature]
      publicKeyBytes == PublicKeyDecoded[publicKey]
      isValid == NaclVerify(messageBytes, signatureBytes.bytes, publicKeyBytes.bytes)
  IN IF signatureBytes.threw \/ publicKeyBytes.threw \/ isValid.threw
     THEN Returned(FALSE)
     ELSE Returned(isValid.value)

(***************************************************************************)
(* The inputs of the calls                                                 *)
(***************************************************************************)
AuthResult(publicKey, signature, message, timestamp) ==
  [publicKey |-> publicKey, signature |-> signature, message |-> message,
   timestamp |-> timestamp]

NoAuth == AuthResult("", "", "", 0)

\* what honest clients produce: a user's signature over a message, with
\* the user's key
GenuineAuth(sk, m, ts) == AuthResult(KeyHandle(sk), SigHandle(sk, m), m, ts)

\* AuthResults sent to the server: genuine ones, and ones with a tampered
\* message, another user's key, a malformed signature or key, and a message
\* that differs from the signed one in an unpaired surrogate only
IssueAuthResults ==
  { GenuineAuth(1, "hello", 1000),
    GenuineAuth(2, "hello", 1500),
    AuthResult("pkAlice", "sig(Alice,hello)", "hellp", 1000),
    AuthResult("pkAlice", "sig(Bob,hello)", "hello", 1000),
    AuthResult("pkAlice", "invalid-signature", "hello", 1000),
    AuthResult("invalid-public-key", "sig(Alice,hello)", "hello", 1000),
    AuthResult("pkAlice", "sig(Alice,\\uFFFD)", "\\uD800", 1000) }

IssueSecrets == {"secretA", "secretB", ""}

IssueOptions ==
  { Omitted,
    Options(Undefined, Undefined, Undefined, Undefined, {}),
    Options(Str("1s"), Undefined, Undefined, Undefined, {}),
    Options(Num(2), Undefined, Undefined, Undefined, {}),
    Options(Num(0), Undefined, Undefined, Undefined, {}),
    Options(Str("-1h"), Undefined, Undefined, Undefined, {}),
    Options(Str("abc"), Undefined, Undefined, Undefined, {}),
    Options(Str("24h"), Str("signmelad-demo"), Str("demo-app"), Undefined, {}),
    Options(Undefined, Undefined, Undefined, Str("user-1"), {}),
    Options(Undefined, Undefined, Undefined, Undefined, {<<"role", Str("admin")>>}),
    Options(Undefined, Undefined, Undefined, Undefined, {<<"publicKey", Str("pkBob")>>}),
    Options(Undefined, Undefined, Undefined, Undefined, {<<"timestamp", Num(7)>>}),
    Options(Undefined, Undefined, Undefined, Undefined, {<<"exp", Num(5)>>}),
    Options(Undefined, Undefined, Undefined, Undefined, {<<"iat", Num(5)>>}),
    Options(Undefined, Undefined, Undefined, Undefined, {<<"iat", Num(0)>>}) }

\* the server of the token life cycle: one user, two secrets, three configurations
LifeAuthResults ==
  { GenuineAuth(1, "hello", 1000),
    AuthResult("pkAlice", "invalid-signature", "hello", 1000) }

LifeSecrets == {"secretA", "secretB"}

LifeOptions ==
  { Omitted,
    Options(Str("1s"), Undefined, Undefined, Undefined, {}),
    Options(Num(2), Str("signmelad-demo"), Str("app-a"), Undefined, {}) }

\* what a validator may expect of a token
ExpectedOptions ==
  { Omitted,
    Options(Undefined, Undefined, Str("app-b"), Undefined, {}),
    Options(Undefined, Str("signmelad-demo"), Str("app-a"), Undefined, {}),
    Options(Undefined, Str("other-issuer"), Undefined, Undefined, {}) }

VerifySecrets == {"secretA", "secretB", ""}

\* a token whose payload was rewritten and whose signature part was kept
Tampered(token) ==
  [token EXCEPT !.payload = Put(token.payload, "publicKey", Str("pkBob"))]

(***************************************************************************)
(* src/server.ts: createAuthMiddleware                                     *)
(***************************************************************************)
\* the word 'Bearer' of a header
SchemeWord == [kind |-> "scheme", payload |-> {}, mac |-> Hs256({}, "")]

\* another first word of a header: 'Basic', 'Token', 'bearer'
OtherSchemeWord == [kind |-> "otherScheme", payload |-> {}, mac |-> Hs256({}, "")]

\* the empty string between two spaces, or an empty header
EmptyWord == [kind |-> "empty", payload |-> {}, mac |-> Hs256({}, "")]

\* req.headers['authorization']: undefined, or a string, given by the
\* words authHeader.split(' ') returns for it
HeaderValue(present, words) == [present |-> present, words |-> words]

NoHeader == HeaderValue(FALSE, <<>>)

\* authHeader && authHeader.split(' ')[1], and whether !token
HeaderFalsy(authHeader) == ~authHeader.present \/ authHeader.words = <<EmptyWord>>

TokenOf(authHeader) ==
  IF HeaderFalsy(authHeader) \/ Len(authHeader.words) < 2 THEN EmptyWord
  ELSE authHeader.words[2]

TokenMissing(authHeader) == TokenOf(authHeader).kind = "empty"

Request(called, authHeader, secret, options, continuation, at, sent, nextCalls, user) ==
  [called |-> called, authHeader |-> authHeader, secret |-> secret,
   options |-> options, continuation |-> continuation, at |-> at,
   sent |-> sent, nextCalls |-> nextCalls, user |-> user]

NoRequest == Request(FALSE, NoHeader, "", Omitted, "returns", 0, <<>>, 0, {})

\* how a continuation ends: it returns, or it throws (as the demo's does:
\* it reads req.user of another request object)
Continuations == {"returns", "throws"}

MiddlewareSecrets == {"secretA", "secretB"}

\* the headers a request can carry around token tok
Headers(tok) ==
  { NoHeader,
    HeaderValue(TRUE, <<EmptyWord>>),
    HeaderValue(TRUE, <<SchemeWord>>),
    HeaderValue(TRUE, <<tok>>),
    HeaderValue(TRUE, <<SchemeWord, EmptyWord, tok>>),
    HeaderValue(TRUE, <<SchemeWord, tok>>),
    HeaderValue(TRUE, <<OtherSchemeWord, tok>>),
    HeaderValue(TRUE, <<tok, tok>>),
    HeaderValue(TRUE, <<SchemeWord, Tampered(tok)>>),
    HeaderValue(TRUE, <<SchemeWord, MalformedToken>>) }

\* authMiddleware(req, res, next) of createAuthMiddleware(jwtSecret, options)
AuthMiddleware(authHeader, jwtSecret, options, continuation, clock) ==
  LET token == TokenOf(authHeader)
      decoded == VerifyAuthToken(token, jwtSecret, options, clock)
  IN IF TokenMissing(authHeader)
     THEN Request(TRUE, authHeader, jwtSecret, options, continuation, clock,
                  <<401>>, 0, {})
     ELSE IF decoded.threw
     THEN Request(TRUE, authHeader, jwtSecret, options, continuation, clock,
                  <<403>>, 0, {})
     ELSE IF continuation = "throws"
     THEN Request(TRUE, authHeader, jwtSecret, options, continuation, clock,
                  <<403>>, 1, decoded.claims)
     ELSE Request(TRUE, authHeader, jwtSecret, options, continuation, clock,
                  <<>>, 1, decoded.claims)

(***************************************************************************)
(* src/utils.ts: generateMessage.  A string is the sequence of its UTF-16  *)
(* code units.                                                             *)
(***************************************************************************)
\* 'By signing this message, you are authenticating with your wallet address '
MessagePrefix ==
  << 66, 121, 32, 115, 105, 103, 110, 105, 110, 103, 32, 116, 104, 105, 115, 32,
     109, 101, 115, 115, 97, 103, 101, 44, 32, 121, 111, 117, 32, 97, 114, 101,
     32, 97, 117, 116, 104, 101, 110, 116, 105, 99, 97, 116, 105, 110, 103, 32,
     119, 105, 116, 104, 32, 121, 111, 117, 114, 32, 119, 97, 108, 108, 101, 116,
     32, 97, 100, 100, 114, 101, 115, 115, 32 >>

\* '.\n\nThis action does not initiate any transaction or transfer any funds
\* from your wallet.\n\nTimestamp: '
MessageMiddle ==
  << 46, 10, 10, 84, 104, 105, 115, 32, 97, 99, 116, 105, 111, 110, 32, 100,
     111, 101, 115, 32, 110, 111, 116, 32, 105, 110, 105, 116, 105, 97, 116, 101,
     32, 97, 110, 121, 32, 116, 114, 97, 110, 115, 97, 99, 116, 105, 111, 110,
     32, 111, 114, 32, 116, 114, 97, 110, 115, 102, 101, 114, 32, 97, 110, 121,
     32, 102, 117, 110, 100, 115, 32, 102, 114, 111, 109, 32, 121, 111, 117, 114,
     32, 119, 97, 108, 108, 101, 116, 46, 10, 10, 84, 105, 109, 101, 115, 116,
     97, 109, 112, 58, 32 >>

\* String(n) of a non-negative integer: its decimal digits
RECURSIVE Decimal(_)
Decimal(n) ==
  IF n < 10 THEN <<48 + n>> ELSE Decimal(n \div 10) \o <<48 + (n % 10)>>

\* a variant that leaves the timestamp out of the message
GenerateMessageUndated(publicKey, timestamp) ==
  MessagePrefix \o publicKey \o MessageMiddle

\* generateMessage(publicKey, timestamp), publicKey given by its code units
GenerateMessage(publicKey, timestamp) ==
  MessagePrefix \o publicKey \o MessageMiddle \o Decimal(timestamp)

\* the public keys and timestamps messages are generated for: keys that
\* are empty, prefixes of each other, end in digits, or contain the text
\* that precedes the timestamp
MessageKeys ==
  { <<>>, <<65>>, <<65, 49>>, <<65, 66>>, <<66>>,
    <<65>> \o MessageMiddle \o <<49>> }

MessageTimestamps == {0, 1, 10, 11, 101, 110}

Generated(publicKey, timestamp, text) ==
  [publicKey |-> publicKey, timestamp |-> timestamp, text |-> text]

MaxGenerated == 2

(***************************************************************************)
(* src/errors/index.ts: the error classes.  An error object is given by    *)
(* its prototype (the class whose prototype object it has) and its fields. *)
(***************************************************************************)
SpecialisedErrors ==
  { "WalletNotFoundError", "WalletConnectionError", "WalletNotConnectedError",
    "SigningError", "SignatureVerificationError", "AuthTokenError",
    "NetworkError", "ConfigurationError" }

\* class X extends Y
SuperClass(class) ==
  CASE class \in SpecialisedErrors -> "SolanaSSORError"
    [] class = "SolanaSSORError" -> "Error"
    [] OTHER -> "Object"

\* the code each specialised constructor passes to super
CodeOf(class) ==
  CASE class = "WalletNotFoundError" -> "WALLET_NOT_FOUND"
    [] class = "WalletConnectionError" -> "WALLET_CONNECTION_FAILED"
    [] class = "WalletNotConnectedError" -> "WALLET_NOT_CONNECTED"
    [] class = "SigningError" -> "SIGNING_FAILED"
    [] class = "SignatureVerificationError" -> "SIGNATURE_VERIFICATION_FAILED"
    [] class = "AuthTokenError" -> "AUTH_TOKEN_INVALID"
    [] class = "NetworkError" -> "NETWORK_ERROR"
    [] class = "ConfigurationError" -> "INVALID_CONFIGURATION"
    [] OTHER -> ""

\* the default value of each constructor's message parameter
DefaultMessageOf(class) ==
  CASE class = "WalletNotFoundError" -> "No supported Solana wallet found."
    [] class = "WalletConnectionError" -> "Failed to connect to wallet."
    [] class = "WalletNotConnectedError" ->
         "Wallet not connected. You must connect to a wallet first."
    [] class = "SigningError" -> "Failed to sign message with wallet."
    [] class = "SignatureVerificationError" -> "Signature verification failed."
    [] class = "AuthTokenError" -> "Invalid or expired authentication token."
    [] class = "NetworkError" -> "Network operation failed."
    [] class = "ConfigurationError" -> "Invalid configuration."
    [] OTHER -> ""

\* originalError is named by a tag, "" when there is none
ErrorObject(proto, name, code, message, originalError) ==
  [proto |-> proto, name |-> name, code |-> code, message |-> message,
   originalError |-> originalError]

NoError == ErrorObject("", "", "", "", "")

\* an error of the wallet or of the platform: new Error(tag)
PlainError(tag) == ErrorObject("Error", "Error", "", tag, "")

\* the constructor of SolanaSSORError, run for new newTarget(...): the
\* object is created with newTarget's prototype, which the constructor
\* then replaces by SolanaSSORError.prototype
NewSolanaSSORError(newTarget, message, code, originalError) ==
  LET created == ErrorObject(newTarget, "Error", "", message, "")
      reset == [created EXCEPT !.proto = "SolanaSSORError"]
  IN [reset EXCEPT !.name = "SolanaSSORError", !.code = code,
                   !.originalError = originalError]

\* new class(message, originalError) for a specialised class; message is a
\* JavaScript value, undefined when the argument is left out
NewError(class, message, originalError) ==
  LET text == IF message.t = "undefined" THEN DefaultMessageOf(class) ELSE message.s
      this == NewSolanaSSORError(class, text, CodeOf(class), originalError)
  IN [this EXCEPT !.name = class]

\* error instanceof class: class.prototype is on the prototype chain
RECURSIVE OnChain(_, _)
OnChain(proto, class) ==
  IF proto = class THEN TRUE
  ELSE IF proto \in {"", "Object"} THEN FALSE
  ELSE OnChain(SuperClass(proto), class)

InstanceOf(error, class) == OnChain(error.proto, class)

ErrorMessages == {Undefined, Str(""), Str("Custom message"), Str("Another message")}

OriginalErrors ==
  {"", "User rejected the request", "Original error", "Network request failed"}

(***************************************************************************)
(* src/auth.ts: SolanaAuth, and the wallet it talks to                     *)
(***************************************************************************)
\* window.phantom.solana: whether it exists, whether it has a disconnect
\* function, and its publicKey ("" for null), as a public key string
Wallet(installed, hasDisconnect, publicKey) ==
  [installed |-> installed, hasDisconnect |-> hasDisconnect, publicKey |-> publicKey]

\* a SolanaAuth instance: whether it was constructed, whether its
\* constructor detected a wallet (this.wallet), options.autoConnect; and
\* whether a connect() of it has succeeded, and whether a disconnect() of
\* it has completed since
Instance(made, wallet, autoConnect, connected, disconnected) ==
  [made |-> made, wallet |-> wallet, autoConnect |-> autoConnect,
   connected |-> connected, disconnected |-> disconnected]

NotMade == Instance(FALSE, FALSE, FALSE, FALSE, FALSE)

Instances == {"A", "B"}

\* the accounts the user can approve a connection with
WalletAccounts == {"pkAlice", "pkBob"}

\* a signature of the wallet: who signed which bytes
WalletSignature(signer, messageBytes) == [signer |-> signer, bytes |-> messageBytes]

\* the AuthResult of authenticate(); message is a sequence of code units
ClientAuthResult(publicKey, signature, message, timestamp) ==
  [publicKey |-> publicKey, signature |-> signature, message |-> message,
   timestamp |-> timestamp]

NoClientAuth == ClientAuthResult("", WalletSignature("", <<>>), <<>>, 0)

\* a call that waits for the wallet: connect() (auto when the constructor
\* started it), authenticate() or disconnect()
\* the argument of authenticate(customMessage?): left out, or a string
CustomMessage(supplied, text) == [supplied |-> supplied, text |-> text]

NoCustomMessage == CustomMessage(FALSE, <<>>)

Pending(op, by, auto, publicKey, timestamp, message, custom) ==
  [op |-> op, by |-> by, auto |-> auto, publicKey |-> publicKey,
   timestamp |-> timestamp, message |-> message, custom |-> custom]

NothingPending == Pending("none", "", FALSE, "", 0, <<>>, NoCustomMessage)

CustomMessages ==
  { NoCustomMessage,
    CustomMessage(TRUE, <<>>),
    CustomMessage(TRUE, <<72, 105>>) }

\* the call that ended last: how it settled ("resolved", "rejected", or
\* "swallowed" when its rejection was caught and only logged), with what,
\* how many requests it made to the wallet and whether one of them failed
Done(op, by, auto, settled, error, text, flag, auth, requests, failed, custom) ==
  [op |-> op, by |-> by, auto |-> auto, settled |-> settled, error |-> error,
   text |-> text, flag |-> flag, auth |-> auth, requests |-> requests,
   failed |-> failed, custom |-> custom]

NothingDone ==
  Done("none", "", FALSE, "none", NoError, "", FALSE, NoClientAuth, 0, FALSE,
       NoCustomMessage)

\* a call that resolved / rejected
Resolved(op, by, auto, text, flag, auth, requests, custom) ==
  Done(op, by, auto, "resolved", NoError, text, flag, auth, requests, FALSE, custom)

Rejection(op, by, auto, settled, error, requests, failed, custom) ==
  Done(op, by, auto, settled, error, "", FALSE, NoClientAuth, requests, failed, custom)

\* link: the last connect() or disconnect() that completed, of any instance
Client(wallet, inst, pending, done, link) ==
  [wallet |-> wallet, inst |-> inst, pending |-> pending, done |-> done,
   link |-> link]

NoClient ==
  Client(Wallet(FALSE, FALSE, ""), [i \in Instances |-> NotMade], NothingPending,
         NothingDone, "none")

\* `... ${this.walletProviderName || 'wallet'}`, for a wallet found at
\* window.phantom.solana
ProviderName == "Phantom"

FailedToConnect == "Failed to connect to Phantom"

FailedToSign == "Failed to sign message with Phantom"

\* new SolanaAuth(options): detects the wallet, and starts connect() when
\* autoConnect is set and a wallet was detected
Constructed(c, i, autoConnect) ==
  LET detected == c.wallet.installed
  IN [c EXCEPT !.inst[i] = Instance(TRUE, detected, autoConnect, FALSE, FALSE),
               !.pending = IF autoConnect /\ detected
                           THEN Pending("connect", i, TRUE, "", 0, <<>>, NoCustomMessage)
                           ELSE NothingPending,
               !.done = Resolved("constructor", i, FALSE, "", FALSE, NoClientAuth,
                                 0, NoCustomMessage)]

\* (variant) connect() without the check of this.wallet
ConnectCalledUnchecked(c, i) ==
  [c EXCEPT !.pending = Pending("connect", i, FALSE, "", 0, <<>>, NoCustomMessage),
            !.done = NothingDone]

\* connect(), up to its await
ConnectCalled(c, i) ==
  IF ~c.inst[i].wallet
  THEN [c EXCEPT !.done =
          Rejection("connect", i, FALSE, "rejected",
                    NewError("WalletNotFoundError", Undefined, ""), 0, FALSE,
                    NoCustomMessage)]
  ELSE [c EXCEPT !.pending = Pending("connect", i, FALSE, "", 0, <<>>, NoCustomMessage),
                 !.done = NothingDone]

\* connect(), after wallet.connect() resolved with { publicKey }; the
\* wallet has set its publicKey
ConnectResolved(c, publicKey) ==
  LET p == c.pending
  IN [c EXCEPT !.wallet.publicKey = publicKey,
               !.inst[p.by].connected = TRUE,
               !.inst[p.by].disconnected = FALSE,
               !.link = "connected",
               !.pending = NothingPending,
               !.done = Resolved("connect", p.by, p.auto, publicKey, FALSE,
                                 NoClientAuth, 1, NoCustomMessage)]

\* connect(), after wallet.connect() rejected: the catch clause throws
\* WalletConnectionError; the constructor's .catch only logs it
ConnectRejected(c, tag) ==
  LET p == c.pending
  IN [c EXCEPT !.pending = NothingPending,
               !.done = Rejection("connect", p.by, p.auto,
                                  IF p.auto THEN "swallowed" ELSE "rejected",
                                  NewError("WalletConnectionError",
                                           Str(FailedToConnect), tag),
                                  1, TRUE, NoCustomMessage)]

\* (variant) the message is generated whatever the caller supplied
MessageToSignGenerated(custom, publicKey, timestamp) ==
  GenerateMessage(PublicKeyUnits[publicKey], timestamp)

\* customMessage || generateMessage(publicKey, timestamp)
MessageToSign(custom, publicKey, timestamp) ==
  IF custom.supplied /\ custom.text # <<>> THEN custom.text
  ELSE GenerateMessage(PublicKeyUnits[publicKey], timestamp)

\* (variant) authenticate() that checks this.wallet only, and not its
\* publicKey
AuthenticateCalledWalletOnly(c, i, custom, clock) ==
  IF ~c.inst[i].wallet
  THEN [c EXCEPT !.done =
          Rejection("authenticate", i, FALSE, "rejected",
                    NewError("WalletNotConnectedError", Undefined, ""), 0, FALSE,
                    custom)]
  ELSE [c EXCEPT !.pending =
          Pending("authenticate", i, FALSE, c.wallet.publicKey, clock,
                  IF c.wallet.publicKey = "" THEN custom.text
                  ELSE MessageToSign(custom, c.wallet.publicKey, clock),
                  custom),
                 !.done = NothingDone]

\* authenticate(customMessage), up to its await
AuthenticateCalled(c, i, custom, clock) ==
  IF ~c.inst[i].wallet \/ c.wallet.publicKey = ""
  THEN [c EXCEPT !.done =
          Rejection("authenticate", i, FALSE, "rejected",
                    NewError("WalletNotConnectedError", Undefined, ""), 0, FALSE,
                    custom)]
  ELSE [c EXCEPT !.pending =
          Pending("authenticate", i, FALSE, c.wallet.publicKey, clock,
                  MessageToSign(custom, c.wallet.publicKey, clock), custom),
                 !.done = NothingDone]

\* nacl.sign.detached.verify on what the browser side produced: the
\* signature is over these bytes and by the holder of this key
ClientVerify(signature, message, publicKey) ==
  signature.signer = publicKey /\ signature.bytes = message

\* createAuthToken on an AuthResult as the browser side holds it: the
\* message by its code units, the signature as the wallet made it
CreateAuthTokenOfClient(authResult, jwtSecret, optionsArg, clock) ==
  LET options == IF optionsArg.passed THEN optionsArg ELSE DEFAULT_TOKEN_OPTIONS
      isValid == ClientVerify(authResult.signature, authResult.message,
                              authResult.publicKey)
      signed == JwtSign(TokenPayload(authResult, options), jwtSecret,
                        SignOptions(options), clock)
  IN IF ~isValid THEN Result(TRUE, "SignatureVerificationError", NoToken, {})
     ELSE IF signed.threw THEN Result(TRUE, "Error", NoToken, {})
     ELSE Result(FALSE, "", signed.token, {})

\* the timestamp fields a client may send with an AuthResult: the one
\* authenticate() returned, or another number
SubmittedTimestamps(auth) == {auth.timestamp, auth.timestamp + 1, 1}

\* authenticate(), after wallet.signMessage resolved
SignResolved(c) ==
  LET p == c.pending
      signature == WalletSignature(c.wallet.publicKey, p.message)
  IN [c EXCEPT !.pending = NothingPending,
               !.done = Resolved("authenticate", p.by, FALSE, "", FALSE,
                                 ClientAuthResult(p.publicKey, signature,
                                                  p.message, p.timestamp),
                                 1, p.custom)]

\* authenticate(), after wallet.signMessage rejected
SignRejected(c, tag) ==
  LET p == c.pending
  IN [c EXCEPT !.pending = NothingPending,
               !.done = Rejection("authenticate", p.by, FALSE, "rejected",
                                  NewError("SigningError", Str(FailedToSign), tag),
                                  1, TRUE, p.custom)]

\* disconnect(), up to its await; without a wallet, or with a wallet that
\* has no disconnect function, it is complete at once
DisconnectCalled(c, i) ==
  IF c.inst[i].wallet /\ c.wallet.hasDisconnect
  THEN [c EXCEPT !.pending = Pending("disconnect", i, FALSE, "", 0, <<>>, NoCustomMessage),
                 !.done = NothingDone]
  ELSE [c EXCEPT !.inst[i].disconnected = TRUE,
                 !.link = "disconnected",
                 !.done = Resolved("disconnect", i, FALSE, "", FALSE, NoClientAuth,
                                   0, NoCustomMessage)]

\* disconnect(), after wallet.disconnect() resolved; the wallet has
\* cleared its publicKey
DisconnectResolved(c) ==
  LET p == c.pending
  IN [c EXCEPT !.wallet.publicKey = "",
               !.inst[p.by].disconnected = TRUE,
               !.link = "disconnected",
               !.pending = NothingPending,
               !.done = Resolved("disconnect", p.by, FALSE, "", FALSE, NoClientAuth,
                                 1, NoCustomMessage)]

\* disconnect(), after wallet.disconnect() rejected: the error is thrown on
DisconnectRejected(c, tag) ==
  LET p == c.pending
  IN [c EXCEPT !.pending = NothingPending,
               !.done = Rejection("disconnect", p.by, FALSE, "rejected",
                                  PlainError(tag), 1, TRUE, NoCustomMessage)]

\* (variant) getStatus() that reports the instance's own connect() and
\* disconnect() instead of the wallet's publicKey
GetStatusOfInstance(c, i) ==
  LET isConnected == c.inst[i].connected /\ ~c.inst[i].disconnected
  IN [c EXCEPT !.done =
        Resolved("getStatus", i, FALSE,
                 IF isConnected THEN c.wallet.publicKey ELSE "",
                 isConnected, NoClientAuth, 0, NoCustomMessage)]

\* getStatus()
GetStatus(c, i) ==
  LET isConnected == c.inst[i].wallet /\ c.wallet.publicKey # ""
  IN [c EXCEPT !.done =
        Resolved("getStatus", i, FALSE,
                 IF isConnected THEN c.wallet.publicKey ELSE "",
                 isConnected, NoClientAuth, 0, NoCustomMessage)]

WalletFailures == {"User rejected the request"}

\* how many times the clock advances while the wallet is waited for
MaxWaits == 1

(***************************************************************************)
(* src/logger/index.ts: Logger, and the default logger of the process      *)
(***************************************************************************)
\* a Logger: its two settings (customLogger "" for null), and next to them
\* the last call that logged with what it wrote, the instances constructed
\* so far with their logging options, and the first and the latest verdict
\* of verifySignature
LoggerObject(debugEnabled, customLogger, call, emitted, owners, first, latest) ==
  [debugEnabled |-> debugEnabled, customLogger |-> customLogger, call |-> call,
   emitted |-> emitted, owners |-> owners, first |-> first, latest |-> latest]

\* a call that logs: a method of the logger with its message, made
\* directly or on behalf of an instance
LogCall(level, message, by) ==
  [level |-> level, message |-> message, by |-> by, debug |-> "",
   customLogger |-> ""]

\* a call of configure, with the two properties of its argument
ConfigureCall(debug, customLogger) ==
  [level |-> "configure", message |-> "", by |-> "", debug |-> debug,
   customLogger |-> customLogger]

NoLogCall == LogCall("", "", "")

\* a verdict of verifySignature, next to its three arguments, the time of
\* the call and the logger settings during it
Verdict(made, signature, message, publicKey, value, at, debugEnabled, customLogger) ==
  [made |-> made, signature |-> signature, message |-> message,
   publicKey |-> publicKey, value |-> value, at |-> at,
   debugEnabled |-> debugEnabled, customLogger |-> customLogger]

NoVerdict == Verdict(FALSE, "", "", "", FALSE, 0, FALSE, "")

\* the logging options of a SolanaAuth instance: options.debug and
\* options.logger as given ("undefined" when left out)
LoggingOptions(made, debug, customLogger) ==
  [made |-> made, debug |-> debug, customLogger |-> customLogger]

NoOwner == LoggingOptions(FALSE, "undefined", "undefined")

\* new Logger(): debug = false, customLogger = null
DefaultLogger ==
  LoggerObject(FALSE, "", NoLogCall, <<>>, [i \in Instances |-> NoOwner],
               NoVerdict, NoVerdict)

LogLevels == {"debug", "info", "warn", "error"}

\* the logger functions a caller may install
LoggerFunctions == {"fnA", "fnB"}

\* one delivery: to a custom logger function (method "call") with the raw
\* message, or to a console method with the formatted message
Emission(sink, method, level, message, timestamp) ==
  [sink |-> sink, method |-> method, level |-> level, message |-> message,
   timestamp |-> timestamp]

\* the switch of Logger.log
ConsoleMethod(level) ==
  CASE level = "debug" -> "log"
    [] level = "info" -> "log"
    [] level = "warn" -> "warn"
    [] level = "error" -> "error"

\* (variant) Logger.log without the return after the custom logger
LoggerLogBoth(l, level, message, clock) ==
  (IF l.customLogger # ""
   THEN <<Emission(l.customLogger, "call", level, message, 0)>> ELSE <<>>)
  \o <<Emission("console", ConsoleMethod(level), level, message, clock)>>

\* Logger.log(level, message): what it writes
LoggerLog(l, level, message, clock) ==
  IF l.customLogger # ""
  THEN <<Emission(l.customLogger, "call", level, message, 0)>>
  ELSE <<Emission("console", ConsoleMethod(level), level, message, clock)>>

\* Logger.debug / info / warn / error
LoggerCall(l, level, message, clock) ==
  IF level = "debug" /\ ~l.debugEnabled THEN <<>>
  ELSE LoggerLog(l, level, message, clock)

\* Logger.configure({ debug, customLogger }): debug is "undefined", "true"
\* or "false"; customLogger is "undefined", "null" or a function
LoggerConfigure(l, debug, customLogger) ==
  [l EXCEPT !.debugEnabled = IF debug = "undefined" THEN @ ELSE debug = "true",
            !.customLogger = IF customLogger = "undefined" THEN @
                             ELSE IF customLogger = "null" THEN ""
                             ELSE customLogger]

DebugArguments == {"undefined", "true", "false"}

\* the SolanaAuth constructor: this.options = { ...defaultOptions,
\* ...options } with defaultOptions.debug = false and no logger, then
\* logger.configure({ debug: this.options.debug, customLogger:
\* this.options.logger }) on the logger of the process
ConstructorConfigures(l, i, own) ==
  LET debug == IF own.debug = "undefined" THEN "false" ELSE own.debug
  IN [LoggerConfigure(l, debug, own.customLogger) EXCEPT
        !.owners[i] = own,
        !.call = ConfigureCall(debug, own.customLogger),
        !.emitted = <<>>]

\* authenticate() of an instance without a wallet logs two lines before
\* it throws
AuthenticateLogs(l, clock) ==
  LoggerCall(l, "debug", "Starting authentication process", clock)
    \o LoggerCall(l, "error", "Authentication failed: Wallet not connected", clock)

CustomLoggerArguments == {"undefined", "null"} \cup LoggerFunctions

LogMessages == {"Test message"}

\* (variant) the verdict under a custom logger function that throws: the
\* first debug call is outside the try block
VerifySignatureLoggerThrows(l, signature, message, publicKey, clock) ==
  LET r == VerifySignatureTry(signature, message, publicKey)
  IN [value |-> IF l.customLogger # "" /\ (l.debugEnabled \/ r.threw) THEN FALSE
                ELSE IF r.threw THEN FALSE ELSE r.value,
      emitted |-> <<>>]

\* verifySignature with its log calls: the verdict, and what it writes
VerifySignatureLogged(l, signature, message, publicKey, clock) ==
  LET first == LoggerCall(l, "debug", "Verifying signature", clock)
      r == VerifySignatureTry(signature, message, publicKey)
      second ==
        IF r.threw
        THEN LoggerCall(l, "error", "Signature verification error:", clock)
        ELSE LoggerCall(l, "debug",
                        IF r.value THEN "Signature verification successful"
                        ELSE "Signature verification failed", clock)
  IN [value |-> IF r.threw THEN FALSE ELSE r.value, emitted |-> first \o second]

\* the argument triples verifySignature is called with repeatedly
VerifiedTriples ==
  { <<"sig(Alice,hello)", "hello", "pkAlice">>,
    <<"sig(Alice,hello)", "hellp", "pkAlice">>,
    <<"sig(Alice,hello)", "hello", "pkBob">>,
    <<"invalid-signature", "hello", "pkAlice">> }

\* the lines createAuthToken logs, given the outcome of its call of
\* verifySignature (with what that call logged) and its own outcome
CreateAuthTokenLines(l, isValid, result, clock) ==
  [result |-> result,
   emitted |->
     LoggerCall(l, "debug", "Creating auth token from authentication result",
                clock)
     \o isValid.emitted
     \o (IF ~isValid.value
         THEN LoggerCall(l, "error",
                         "Signature verification failed when creating auth token",
                         clock)
         ELSE LoggerCall(l, "debug", "Generating JWT token", clock)
              \o (IF result.threw THEN <<>>
                  ELSE LoggerCall(l, "info", "Auth token created successfully",
                                  clock)))]

\* (variant) createAuthToken that keeps the verdict of the AuthResult it
\* minted a token for, and reuses it for a call with the same signature and
\* public key
CreateAuthTokenCached(l, authResult, jwtSecret, optionsArg, clock) ==
  LET options == IF optionsArg.passed THEN optionsArg ELSE DEFAULT_TOKEN_OPTIONS
      hit == /\ issued.token # NoToken
             /\ issued.auth.signature = authResult.signature
             /\ issued.auth.publicKey = authResult.publicKey
      signed == JwtSign(TokenPayload(authResult, options), jwtSecret,
                        SignOptions(options), clock)
  IN IF hit
     THEN [result |-> IF signed.threw THEN Result(TRUE, "Error", NoToken, {})
                      ELSE Result(FALSE, "", signed.token, {}),
           emitted |-> <<>>]
     ELSE [result |-> CreateAuthToken(authResult, jwtSecret, optionsArg, clock),
           emitted |-> VerifySignatureLogged(l, authResult.signature,
                                             authResult.message,
                                             authResult.publicKey, clock).emitted]

\* createAuthToken with its log calls: the outcome, and what it writes
CreateAuthTokenLogged(l, authResult, jwtSecret, optionsArg, clock) ==
  CreateAuthTokenLines(l, VerifySignatureLogged(l, authResult.signature,
                                                authResult.message,
                                                authResult.publicKey, clock),
                       CreateAuthToken(authResult, jwtSecret, optionsArg, clock),
                       clock)

(***************************************************************************)
(* src/utils/index.ts: detectWallet                                        *)
(***************************************************************************)
\* the global object: whether there is one (typeof window !== 'undefined'),
\* its properties phantom, solflare, sollet and slope ("" for undefined,
\* else the object found there), and what detectWallet returned last
\* ("none" before any call, "null" for null)
Window(present, phantom, solflare, sollet, slope, detected) ==
  [present |-> present, phantom |-> phantom, solflare |-> solflare,
   sollet |-> sollet, slope |-> slope, detected |-> detected]

\* outside a browser
NoWindow == Window(FALSE, "", "", "", "", "none")

\* window.phantom?.solana: "{}" is a phantom object without solana
PhantomSolana(w) == IF w.phantom \in {"", "{}"} THEN "" ELSE w.phantom

\* (variant) Solflare is looked for before Phantom
DetectWalletSolflareFirst(w) ==
  IF ~w.present THEN "null"
  ELSE IF w.solflare # "" THEN w.solflare
  ELSE IF PhantomSolana(w) # "" THEN PhantomSolana(w)
  ELSE IF w.sollet # "" THEN w.sollet
  ELSE IF w.slope # "" THEN w.slope
  ELSE "null"

DetectWallet(w) ==
  IF ~w.present THEN "null"
  ELSE IF PhantomSolana(w) # "" THEN PhantomSolana(w)
  ELSE IF w.solflare # "" THEN w.solflare
  ELSE IF w.sollet # "" THEN w.sollet
  ELSE IF w.slope # "" THEN w.slope
  ELSE "null"

ProviderSlots == {"phantom", "solflare", "sollet", "slope"}

\* what a page or an extension puts on the window
ProviderObjects(slot) ==
  CASE slot = "phantom" -> {"{}", "phantomWallet"}
    [] slot = "solflare" -> {"solflareWallet", "anotherWallet"}
    [] slot = "sollet" -> {"solletWallet", "anotherWallet"}
    [] slot = "slope" -> {"slopeWallet", "anotherWallet"}

(***************************************************************************)
(* demo/backend/server.js and demo/frontend/app.js                         *)
(***************************************************************************)
\* process.env.JWT_SECRET || 'signmelad_demo_secret_key'
JWT_SECRET == "signmelad_demo_secret_key"

\* jwtOptions = { expiresIn: '24h', issuer: 'signmelad-demo', audience: 'demo-app' }
jwtOptions == Options(Str("24h"), Str("signmelad-demo"), Str("demo-app"), Undefined, {})

\* an HTTP response of the backend: its status, data.success, data.token
\* and data.user.publicKey
Response(status, success, token, publicKey) ==
  [status |-> status, success |-> success, token |-> token, publicKey |-> publicKey]

NoResponse == Response(0, FALSE, NoToken, "")

\* the response of /api/auth, given the outcomes of its calls of
\* verifySignature and createAuthToken
ApiAuthResponds(body, isValid, token) ==
  IF body.publicKey = "" \/ body.signature = "" \/ body.message = ""
     \/ body.timestamp = 0
  THEN Response(400, FALSE, NoToken, "")
  ELSE IF ~isValid.value THEN Response(401, FALSE, NoToken, "")
  ELSE IF token.threw THEN Response(500, FALSE, NoToken, "")
  ELSE Response(200, TRUE, token.token, body.publicKey)

\* POST /api/auth with body { publicKey, signature, message, timestamp }
ApiAuth(body, clock) ==
  ApiAuthResponds(body,
                  VerifySignature(body.signature, body.message, body.publicKey),
                  CreateAuthToken(body, JWT_SECRET, jwtOptions, clock))

\* req.user of the request the route received: nothing sets it
RouteUser == Undefined

\* the continuation the route hands to the middleware evaluates
\* req.user.publicKey on the route's own request, and the middleware has
\* set user on the object it was given instead
RouteContinuation == IF RouteUser.t = "undefined" THEN "throws" ELSE "returns"

\* the response of /api/verify, given what the middleware did
ApiVerifyResponds(g) ==
  IF g.sent # <<>> THEN Response(g.sent[Len(g.sent)], FALSE, NoToken, "")
  ELSE Response(200, TRUE, NoToken, RouteUser.s)

\* POST /api/verify with body { token } (NoToken: no token in the body)
ApiVerify(token, clock) ==
  IF token.kind = "none" THEN Response(400, FALSE, NoToken, "")
  ELSE ApiVerifyResponds(
         AuthMiddleware(HeaderValue(TRUE, <<SchemeWord, token>>), JWT_SECRET,
                        jwtOptions, RouteContinuation, clock))

\* the page: whether the user is shown as logged in (updateAuthUI), whether
\* the verification started at load is under way and how it ended; the
\* last request to the backend (its path, the token in its body, the
\* time the backend handled it) with the response; and of the last removal of the stored token: what caused
\* it, and whether the token was valid then
Demo(loggedIn, verifying, loaded, path, body, at, response, removedBy, removedValid) ==
  [loggedIn |-> loggedIn, verifying |-> verifying, loaded |-> loaded,
   path |-> path, body |-> body, at |-> at, response |-> response,
   removedBy |-> removedBy, removedValid |-> removedValid]

NoDemo == Demo(FALSE, FALSE, "none", "", NoToken, 0, NoResponse, "", FALSE)

\* what the page of an honest user sends to /api/auth, and what others send
DemoAuthResults ==
  { GenuineAuth(1, "hello", 1000),
    AuthResult("pkAlice", "sig(Alice,hello)", "hellp", 1000),
    AuthResult("pkAlice", "sig(Alice,hello)", "hello", 0) }

\* verifyAuthToken accepts the token at the backend now
ValidNow(token, clock) == ~VerifyAuthToken(token, JWT_SECRET, jwtOptions, clock).threw

\* logout(): the token is removed, for the given cause
LoggedOut(d, cause, valid) ==
  [d EXCEPT !.loggedIn = FALSE, !.removedBy = cause, !.removedValid = valid]

(***************************************************************************)
(* State                                                                   *)
(***************************************************************************)
Call(op, auth, secret, options, token, result, value) ==
  [op |-> op, auth |-> auth, secret |-> secret, options |-> options,
   token |-> token, result |-> result, value |-> value]

Idle == Call("idle", NoAuth, "", Omitted, NoToken, NoResult, FALSE)

Held(token, secret, options, auth, mintedAt) ==
  [token |-> token, secret |-> secret, options |-> options, auth |-> auth,
   mintedAt |-> mintedAt]

NoneHeld == Held(NoToken, "", Omitted, NoAuth, 0)

\* the model's horizon: half-second steps within a day, and whole days
MaxTicks == 4

MaxDays == 1

TickMs == MsPerSecond \div 2

DayMs == 24 * 60 * 60 * MsPerSecond

Init ==
  /\ now = MsPerSecond
  /\ issued = NoneHeld
  /\ stored = FALSE
  /\ last = Idle
  /\ gate = NoRequest
  /\ generated = {}
  /\ client = NoClient
  /\ logger = DefaultLogger
  /\ window = NoWindow
  /\ demo = NoDemo

(***************************************************************************)
(* Operations                                                              *)
(***************************************************************************)
\* a call of verifySignature
VerifySignatureCall ==
  \E s \in SignatureStrings, m \in Messages, p \in PublicKeyStrings :
    LET r == VerifySignature(s, m, p)
    IN /\ last' = Call("verifySignature", AuthResult(p, s, m, 0), "", Omitted, NoToken,
                       Result(r.threw, IF r.threw THEN "Error" ELSE "", NoToken, {}),
                       r.value)
       /\ UNCHANGED <<now, issued, stored, gate, generated, client, logger, window, demo>>

\* a call of SolanaAuth.verify
SolanaAuthVerifyCall ==
  \E s \in SignatureStrings, m \in Messages, p \in PublicKeyStrings :
    LET r == SolanaAuthVerify(s, m, p)
    IN /\ last' = Call("SolanaAuth.verify", AuthResult(p, s, m, 0), "", Omitted, NoToken,
                       Result(r.threw, IF r.threw THEN "Error" ELSE "", NoToken, {}),
                       r.value)
       /\ UNCHANGED <<now, issued, stored, gate, generated, client, logger, window, demo>>

\* a call of createAuthToken; the server keeps nothing of it
CreateAuthTokenCall(authResults, secrets, optionSet) ==
  \E a \in authResults, s \in secrets, o \in optionSet :
    /\ last' = Call("createAuthToken", a, s, o, NoToken,
                    CreateAuthToken(a, s, o, now), FALSE)
    /\ UNCHANGED <<now, issued, stored, gate, generated, client, logger, window, demo>>

\* the client keeps the token it was just given (demo: localStorage.setItem)
StoreToken ==
  /\ last.op = "createAuthToken"
  /\ ~last.result.threw
  /\ issued' = Held(last.result.token, last.secret, last.options, last.auth, now)
  /\ stored' = TRUE
  /\ UNCHANGED <<now, last, gate, generated, client, logger, window, demo>>

\* a call of verifyAuthToken on the token in circulation, on a tampered copy
\* of it, or on a malformed string
VerifyAuthTokenCall ==
  \E tok \in {issued.token, Tampered(issued.token), MalformedToken},
     s \in VerifySecrets, e \in ExpectedOptions :
    /\ tok.kind # "none"
    /\ last' = Call("verifyAuthToken", NoAuth, s, e, tok,
                    VerifyAuthToken(tok, s, e, now), FALSE)
    /\ UNCHANGED <<now, issued, stored, gate, generated, client, logger, window, demo>>

\* the client discards its token (demo: logout, also run on wallet
\* disconnect); the token itself is not changed by that
Logout ==
  /\ stored
  /\ stored' = FALSE
  /\ UNCHANGED <<now, issued, last, gate, generated, client, logger, window, demo>>

\* half a second passes
Tick ==
  /\ (now % DayMs) + TickMs <= MsPerSecond + MaxTicks * TickMs
  /\ now' = now + TickMs
  /\ last' = Idle
  /\ UNCHANGED <<issued, stored, gate, generated, client, logger, window, demo>>

\* a day passes
DayPasses ==
  /\ now \div DayMs < MaxDays
  /\ now' = now + DayMs
  /\ last' = Idle
  /\ UNCHANGED <<issued, stored, gate, generated, client, logger, window, demo>>

Next ==
  \/ CreateAuthTokenCall(LifeAuthResults, LifeSecrets, LifeOptions)
  \/ StoreToken
  \/ VerifyAuthTokenCall
  \/ Logout
  \/ Tick
  \/ DayPasses

\* the token life cycle: issuance, storage, validation, logout, time
Spec == Init /\ [][Next]_vars

\* the token just minted is validated with the same secret and the same
\* options object (tests/server.test.ts: create, then verifyAuthToken)
RoundTripCall ==
  /\ last.op = "createAuthToken"
  /\ ~last.result.threw
  /\ last' = Call("verifyAuthToken", last.auth, last.secret, last.options,
                  last.result.token,
                  VerifyAuthToken(last.result.token, last.secret, last.options, now),
                  FALSE)
  /\ UNCHANGED <<now, issued, stored, gate, generated, client, logger, window, demo>>

NextIssue ==
  \/ CreateAuthTokenCall(IssueAuthResults, IssueSecrets, IssueOptions)
  \/ RoundTripCall

InitIssue ==
  /\ now \in {MsPerSecond, MsPerSecond + TickMs}
  /\ issued = NoneHeld
  /\ stored = FALSE
  /\ last = Idle
  /\ gate = NoRequest
  /\ generated = {}
  /\ client = NoClient
  /\ logger = DefaultLogger
  /\ window = NoWindow
  /\ demo = NoDemo

\* issuance and the round trip, over every kind of AuthResult, secret and options
SpecIssue == InitIssue /\ [][NextIssue]_vars

NextSig == VerifySignatureCall \/ SolanaAuthVerifyCall

\* the signature verifier alone, over every triple of strings
SpecSig == Init /\ [][NextSig]_vars

\* a request goes through the middleware
AuthMiddlewareCall ==
  \E h \in Headers(issued.token), s \in MiddlewareSecrets, e \in ExpectedOptions,
     c \in Continuations :
    /\ gate' = AuthMiddleware(h, s, e, c, now)
    /\ UNCHANGED <<now, issued, stored, last, generated, client, logger, window, demo>>

NextGate == AuthMiddlewareCall \/ Tick

\* a server whose client holds a token minted a moment ago
InitGate ==
  /\ now = MsPerSecond
  /\ \E o \in LifeOptions :
       LET a == GenuineAuth(1, "hello", MsPerSecond)
       IN issued = Held(CreateAuthToken(a, "secretA", o, MsPerSecond).token,
                        "secretA", o, a, MsPerSecond)
  /\ stored = TRUE
  /\ last = Idle
  /\ gate = NoRequest
  /\ generated = {}
  /\ client = NoClient
  /\ logger = DefaultLogger
  /\ window = NoWindow
  /\ demo = NoDemo

\* the authorization gate in front of a route, while the token ages
SpecGate == InitGate /\ [][NextGate]_vars

\* a call of generateMessage
GenerateMessageCall ==
  /\ Cardinality(generated) < MaxGenerated
  /\ \E k \in MessageKeys, ts \in MessageTimestamps :
       generated' = generated \cup {Generated(k, ts, GenerateMessage(k, ts))}
  /\ UNCHANGED <<now, issued, stored, last, gate, client, logger, window, demo>>

NextMessage == GenerateMessageCall

\* generateMessage alone, over pairs of calls
SpecMessage == Init /\ [][NextMessage]_vars

\* new class(message, originalError) of a specialised error class
NewErrorCall ==
  \E class \in SpecialisedErrors, m \in ErrorMessages, o \in OriginalErrors :
    /\ client' = [client EXCEPT !.done =
                    Rejection("new", class, FALSE, "none", NewError(class, m, o),
                              0, FALSE, NoCustomMessage)]
    /\ UNCHANGED <<now, issued, stored, last, gate, generated, logger, window, demo>>

NextErrors == NewErrorCall

\* the error classes alone
SpecErrors == Init /\ [][NextErrors]_vars

IdleClient == client.pending.op = "none"

\* new SolanaAuth({ autoConnect })
ConstructCall ==
  \E i \in Instances, autoConnect \in BOOLEAN :
    /\ ~client.inst[i].made
    /\ IdleClient
    /\ client' = Constructed(client, i, autoConnect)
    /\ UNCHANGED <<now, issued, stored, last, gate, generated, logger, window, demo>>

ConnectCall ==
  \E i \in Instances :
    /\ client.inst[i].made
    /\ IdleClient
    /\ client' = ConnectCalled(client, i)
    /\ UNCHANGED <<now, issued, stored, last, gate, generated, logger, window, demo>>

\* the wallet answers a connection request: the user approves an account,
\* or the request fails
WalletConnectReturns ==
  /\ client.pending.op = "connect"
  /\ \/ \E k \in WalletAccounts : client' = ConnectResolved(client, k)
     \/ \E tag \in WalletFailures : client' = ConnectRejected(client, tag)
  /\ UNCHANGED <<now, issued, stored, last, gate, generated, logger, window, demo>>

AuthenticateCall ==
  \E i \in Instances, m \in CustomMessages :
    /\ client.inst[i].made
    /\ IdleClient
    /\ client' = AuthenticateCalled(client, i, m, now)
    /\ UNCHANGED <<now, issued, stored, last, gate, generated, logger, window, demo>>

\* the wallet answers a signing request
WalletSignReturns ==
  /\ client.pending.op = "authenticate"
  /\ \/ client.wallet.publicKey # "" /\ client' = SignResolved(client)
     \/ \E tag \in WalletFailures : client' = SignRejected(client, tag)
  /\ UNCHANGED <<now, issued, stored, last, gate, generated, logger, window, demo>>

DisconnectCall ==
  \E i \in Instances :
    /\ client.inst[i].made
    /\ IdleClient
    /\ client' = DisconnectCalled(client, i)
    /\ UNCHANGED <<now, issued, stored, last, gate, generated, logger, window, demo>>

\* the wallet answers a disconnection request
WalletDisconnectReturns ==
  /\ client.pending.op = "disconnect"
  /\ \/ client' = DisconnectResolved(client)
     \/ \E tag \in WalletFailures : client' = DisconnectRejected(client, tag)
  /\ UNCHANGED <<now, issued, stored, last, gate, generated, logger, window, demo>>

GetStatusCall ==
  \E i \in Instances :
    /\ client.inst[i].made
    /\ client' = GetStatus(client, i)
    /\ UNCHANGED <<now, issued, stored, last, gate, generated, logger, window, demo>>

\* time passes while a request waits for the user at the wallet
WalletWaits ==
  /\ ~IdleClient
  /\ now < MsPerSecond + MaxWaits * TickMs
  /\ now' = now + TickMs
  /\ UNCHANGED <<issued, stored, last, gate, generated, client, logger, window, demo>>

\* a page: with or without a wallet extension, whose wallet has or lacks a
\* disconnect function, and no SolanaAuth instance yet
InitClient ==
  /\ now = MsPerSecond
  /\ issued = NoneHeld
  /\ stored = FALSE
  /\ last = Idle
  /\ gate = NoRequest
  /\ generated = {}
  /\ \E installed \in BOOLEAN, hasDisconnect \in BOOLEAN :
       /\ hasDisconnect => installed
       /\ client = [NoClient EXCEPT !.wallet = Wallet(installed, hasDisconnect, "")]
  /\ logger = DefaultLogger
  /\ window = NoWindow
  /\ demo = NoDemo

NextClient ==
  \/ ConstructCall
  \/ ConnectCall
  \/ WalletConnectReturns
  \/ AuthenticateCall
  \/ WalletSignReturns
  \/ DisconnectCall
  \/ WalletDisconnectReturns
  \/ GetStatusCall
  \/ WalletWaits

\* the browser side: SolanaAuth instances and the wallet
SpecClient == InitClient /\ [][NextClient]_vars

\* while a signing request waits for the user, the user switches the
\* wallet to another account, or disconnects the wallet ("": the wallet's
\* publicKey is null, and it signs nothing)
WalletAccountChanges ==
  \E k \in (WalletAccounts \cup {""}) \ {client.wallet.publicKey} :
    /\ client.pending.op = "authenticate"
    /\ client' = [client EXCEPT !.wallet.publicKey = k]
    /\ UNCHANGED <<now, issued, stored, last, gate, generated, logger, window, demo>>

\* the client sends the AuthResult of its last authenticate() to a server,
\* with a timestamp field of its choice, and the server mints a token
SubmitAuthResult ==
  \E t \in SubmittedTimestamps(client.done.auth), o \in {Omitted, jwtOptions} :
    LET a == [client.done.auth EXCEPT !.timestamp = t]
    IN /\ client.done.op = "authenticate"
       /\ client.done.settled = "resolved"
       /\ IdleClient
       /\ last' = Call("createAuthToken", a, "secretA", o, NoToken,
                       CreateAuthTokenOfClient(a, "secretA", o, now), FALSE)
       /\ UNCHANGED <<now, issued, stored, gate, generated, client, logger, window, demo>>

NextSubmit ==
  \/ ConstructCall
  \/ ConnectCall
  \/ WalletConnectReturns
  \/ AuthenticateCall
  \/ WalletSignReturns
  \/ WalletWaits
  \/ SubmitAuthResult

\* authentication end to end: the wallet signs, the server mints
SpecSubmit == InitClient /\ [][NextSubmit]_vars

NextSigning ==
  \/ ConstructCall
  \/ ConnectCall
  \/ WalletConnectReturns
  \/ AuthenticateCall
  \/ WalletSignReturns
  \/ WalletAccountChanges

\* the browser side, with a user who acts on the wallet during a signing
\* request
SpecSigning == InitClient /\ [][NextSigning]_vars

\* logger.configure({ debug, customLogger })
LoggerConfigureCall ==
  \E d \in DebugArguments, f \in CustomLoggerArguments :
    /\ logger' = [LoggerConfigure(logger, d, f) EXCEPT !.call = ConfigureCall(d, f),
                                                       !.emitted = <<>>]
    /\ UNCHANGED <<now, issued, stored, last, gate, generated, client, window, demo>>

\* logger.debug / info / warn / error (message)
LoggerLogCall ==
  \E level \in LogLevels, m \in LogMessages :
    /\ logger' = [logger EXCEPT !.call = LogCall(level, m, ""),
                                !.emitted = LoggerCall(logger, level, m, now)]
    /\ UNCHANGED <<now, issued, stored, last, gate, generated, client, window, demo>>

\* verifySignature, called again and again while the clock and the logger
\* settings change
VerifySignatureLoggedCall ==
  \E x \in VerifiedTriples :
    LET r == VerifySignatureLogged(logger, x[1], x[2], x[3], now)
        verdict == Verdict(TRUE, x[1], x[2], x[3], r.value, now,
                           logger.debugEnabled, logger.customLogger)
        \* of the latest call the time and the settings are the current ones
        again == Verdict(TRUE, x[1], x[2], x[3], r.value, 0, FALSE, "")
    IN /\ logger' = [logger EXCEPT
                       !.call = LogCall("verifySignature", "", ""),
                       !.emitted = r.emitted,
                       !.first = IF @.made THEN @ ELSE verdict,
                       !.latest = again]
       /\ last' = Call("verifySignature", AuthResult(x[3], x[1], x[2], 0), "",
                       Omitted, NoToken, NoResult, r.value)
       /\ UNCHANGED <<now, issued, stored, gate, generated, client, window, demo>>

NextVerdict ==
  \/ LoggerConfigureCall
  \/ VerifySignatureLoggedCall
  \/ Tick

\* verifySignature called repeatedly in a process whose clock advances and
\* whose logger is reconfigured
SpecVerdict == Init /\ [][NextVerdict]_vars

NextLog ==
  \/ LoggerConfigureCall
  \/ LoggerLogCall
  \/ Tick

\* the default logger of the process and the code that logs through it
SpecLog == Init /\ [][NextLog]_vars

\* new SolanaAuth({ debug, logger }), each option given or left out
SolanaAuthConstructed ==
  \E i \in Instances, d \in DebugArguments,
     f \in {"undefined"} \cup LoggerFunctions :
    /\ ~logger.owners[i].made
    /\ logger' = ConstructorConfigures(logger, i, LoggingOptions(TRUE, d, f))
    /\ UNCHANGED <<now, issued, stored, last, gate, generated, client, window, demo>>

\* authenticate() of an instance, on a page without a wallet
InstanceLogs ==
  \E i \in Instances :
    /\ logger.owners[i].made
    /\ logger' = [logger EXCEPT !.call = LogCall("authenticate", "", i),
                                !.emitted = AuthenticateLogs(logger, now)]
    /\ UNCHANGED <<now, issued, stored, last, gate, generated, client, window, demo>>

NextInstances ==
  \/ SolanaAuthConstructed
  \/ InstanceLogs
  \/ Tick

\* several SolanaAuth instances in one process, and the logger they share
SpecInstances == Init /\ [][NextInstances]_vars

\* an extension or the page sets a provider on the window
InjectProvider ==
  \E slot \in ProviderSlots :
    \E object \in ProviderObjects(slot) :
      /\ window.present
      /\ window[slot] = ""
      /\ window' = [window EXCEPT ![slot] = object, !.detected = "none"]
      /\ UNCHANGED <<now, issued, stored, last, gate, generated, client, logger, demo>>

DetectWalletCall ==
  /\ window' = [window EXCEPT !.detected = DetectWallet(window)]
  /\ UNCHANGED <<now, issued, stored, last, gate, generated, client, logger, demo>>

\* with or without a browser
InitDetect ==
  /\ now = MsPerSecond
  /\ issued = NoneHeld
  /\ stored = FALSE
  /\ last = Idle
  /\ gate = NoRequest
  /\ generated = {}
  /\ client = NoClient
  /\ logger = DefaultLogger
  /\ \E present \in BOOLEAN : window = [NoWindow EXCEPT !.present = present]
  /\ demo = NoDemo

NextDetect == InjectProvider \/ DetectWalletCall

\* wallet detection on a page where providers appear
SpecDetect == InitDetect /\ [][NextDetect]_vars

\* AuthResults sent one after the other: Alice's, the same with a tampered
\* message, and Bob's
ReissueAuthResults ==
  { GenuineAuth(1, "hello", 1000),
    AuthResult("pkAlice", "sig(Alice,hello)", "hellp", 1000),
    GenuineAuth(2, "hello", 1500) }

CreateAuthTokenReturns(a, s, o, r) ==
  /\ last' = Call("createAuthToken", a, s, o, NoToken, r.result, FALSE)
  /\ logger' = [logger EXCEPT !.call = LogCall("createAuthToken", "", ""),
                              !.emitted = r.emitted]
  /\ UNCHANGED <<now, issued, stored, gate, generated, client, window, demo>>

\* a call of createAuthToken in a server that has minted tokens before
CreateAuthTokenLoggedCall ==
  \E a \in ReissueAuthResults, s \in {"secretA"}, o \in LifeOptions :
    CreateAuthTokenReturns(a, s, o, CreateAuthTokenLogged(logger, a, s, o, now))

\* a server whose logger has debug enabled or not
InitReissue ==
  /\ now = MsPerSecond
  /\ issued = NoneHeld
  /\ stored = FALSE
  /\ last = Idle
  /\ gate = NoRequest
  /\ generated = {}
  /\ client = NoClient
  /\ \E d \in {"true", "false"} : logger = LoggerConfigure(DefaultLogger, d, "undefined")
  /\ window = NoWindow
  /\ demo = NoDemo

NextReissue ==
  \/ CreateAuthTokenLoggedCall
  \/ StoreToken
  \/ Tick

\* issuance call after issuance call
SpecReissue == InitReissue /\ [][NextReissue]_vars

\* the login button: authenticate(), POST /api/auth, and on success
\* localStorage.setItem('authToken', data.token)
Authenticates(a, r) ==
  /\ ~demo.verifying
  /\ demo' = [demo EXCEPT !.path = "/api/auth", !.body = NoToken, !.at = now,
                          !.response = r,
                          !.loggedIn = IF r.success THEN TRUE ELSE @]
  /\ issued' = IF r.success THEN Held(r.token, JWT_SECRET, jwtOptions, a, now)
               ELSE issued
  /\ stored' = IF r.success THEN TRUE ELSE stored
  /\ UNCHANGED <<now, last, gate, generated, client, logger, window>>

DemoLogin == \E a \in DemoAuthResults : Authenticates(a, ApiAuth(a, now))

\* the page loads: with a token in localStorage, verifyToken starts
PageLoad ==
  /\ ~demo.verifying
  /\ demo' = [demo EXCEPT !.loggedIn = FALSE, !.verifying = stored,
                          !.loaded = "none", !.path = "", !.body = NoToken, !.at = 0,
                          !.response = NoResponse]
  /\ UNCHANGED <<now, issued, stored, last, gate, generated, client, logger, window>>

\* the backend answers the verification started at load
VerifyTokenAnswered(r) ==
  /\ demo.verifying
  /\ demo' = IF r.success
             THEN [demo EXCEPT !.verifying = FALSE, !.loaded = "accepted",
                               !.path = "/api/verify", !.body = issued.token,
                               !.at = now, !.response = r, !.loggedIn = TRUE]
             ELSE [LoggedOut(demo, "verification", ValidNow(issued.token, now))
                     EXCEPT !.verifying = FALSE, !.loaded = "rejected",
                            !.path = "/api/verify", !.body = issued.token,
                            !.at = now, !.response = r]
  /\ stored' = r.success
  /\ UNCHANGED <<now, issued, last, gate, generated, client, logger, window>>

VerifyTokenResponds == VerifyTokenAnswered(ApiVerify(issued.token, now))

\* the request of the verification started at load fails (fetch rejects)
VerifyTokenFails ==
  /\ demo.verifying
  /\ demo' = [LoggedOut(demo, "network", ValidNow(issued.token, now))
                EXCEPT !.verifying = FALSE, !.loaded = "failed"]
  /\ stored' = FALSE
  /\ UNCHANGED <<now, issued, last, gate, generated, client, logger, window>>

\* the logout button, and the disconnect button (disconnect(), then logout())
DemoLogout ==
  \E cause \in {"logout", "disconnect"} :
    /\ ~demo.verifying
    /\ stored
    /\ demo' = LoggedOut(demo, cause, ValidNow(issued.token, now))
    /\ stored' = FALSE
    /\ UNCHANGED <<now, issued, last, gate, generated, client, logger, window>>

\* POST /api/verify by any client: without a token, with the token the
\* backend issued, with a tampered copy, with a malformed string
ApiVerifyCall ==
  \E tok \in {NoToken, issued.token, Tampered(issued.token), MalformedToken} :
    /\ ~demo.verifying
    /\ demo' = [demo EXCEPT !.path = "/api/verify", !.body = tok, !.at = now,
                            !.response = ApiVerify(tok, now)]
    /\ UNCHANGED <<now, issued, stored, last, gate, generated, client, logger, window>>

NextDemo ==
  \/ DemoLogin
  \/ PageLoad
  \/ VerifyTokenResponds
  \/ VerifyTokenFails
  \/ DemoLogout
  \/ ApiVerifyCall
  \/ Tick
  \/ DayPasses

\* the demo: its page and its backend
SpecDemo == Init /\ [][NextDemo]_vars

(***************************************************************************)
(* Properties                                                              *)
(***************************************************************************)
\* whether the last call's signature string is the signature of a user over
\* bytes b, and its key string that user's key
SignedBytes(a, b) ==
  \E x \in SignedBy :
    /\ a.signature = SigHandle(x[1], x[2])
    /\ a.publicKey = KeyHandle(x[1])
    /\ b = MessageBytes[x[2]]

\* the same, for the message as a string
SignedString(a) ==
  \E x \in SignedBy :
    /\ a.signature = SigHandle(x[1], x[2])
    /\ a.publicKey = KeyHandle(x[1])
    /\ a.message = x[2]

\* whether the signature or the key of a cannot be decoded to 64 and 32 bytes
Undecodable(a) ==
  \/ SignatureDecoded[a.signature].threw
  \/ Len(SignatureDecoded[a.signature].bytes) # SignatureLength
  \/ PublicKeyDecoded[a.publicKey].threw

LastVerified ==
  VerifySignature(last.auth.signature, last.auth.message, last.auth.publicKey).value

C2_VerifyNeverThrows ==
  last.op \in {"verifySignature", "SolanaAuth.verify"} =>
    /\ ~last.result.threw
    /\ last.value \in BOOLEAN
    /\ Undecodable(last.auth) => last.value = FALSE

\* verifySignature('invalid-signature', 'hello', 'invalid-public-key')
\* returned false
C2_Witness ==
  /\ last.op = "verifySignature"
  /\ last.auth.signature = "invalid-signature"
  /\ last.auth.publicKey = "invalid-public-key"
  /\ ~last.result.threw
  /\ last.value = FALSE

\* C3 as stated: verifySignature is true exactly for a user's signature
\* with that user's key and the very message string that was signed, and
\* false for any different message or key.
C3_ExactMessageString ==
  last.op = "verifySignature" => (last.value <=> SignedString(last.auth))

\* C3, amended: verifySignature is true exactly for a user's signature
\* with that user's key and a message whose UTF-8 bytes are the signed
\* bytes; it is false for any message with different bytes, or any other key.
C3_ExactMessageBytes ==
  last.op = "verifySignature" =>
    (last.value <=> SignedBytes(last.auth, MessageBytes[last.auth.message]))

\* verifySignature refused Alice's signature of 'hello' for 'hellp'
C3_Witness ==
  /\ last.op = "verifySignature"
  /\ last.auth = AuthResult("pkAlice", "sig(Alice,hello)", "hellp", 0)
  /\ last.value = FALSE

\* whether the caller chose a lifetime
Specified(o) == o.passed /\ o.expiresIn.t # "undefined"

Minted == last.op = "createAuthToken" /\ ~last.result.threw

\* claim names with a meaning of their own in the token
ReservedClaims == {"publicKey", "timestamp", "iat", "exp", "nbf", "iss", "aud", "sub"}

\* a call with a non-empty secret, a lifetime that is absent or at least one
\* whole second, and custom claims that do not use a reserved name
WellFormedCall ==
  /\ last.secret # ""
  /\ Specified(last.options) =>
       LET l == Timespan(last.options.expiresIn, 0)
       IN l.t = "number" /\ l.n >= 1
  /\ Keys(last.options.customClaims) \cap ReservedClaims = {}

RoundTripOk ==
  /\ ~last.result.threw
  /\ Get(last.result.claims, "publicKey") = Str(last.auth.publicKey)
  /\ Get(last.result.claims, "timestamp") = Num(last.auth.timestamp)

\* C4 as stated: for every AuthResult with a valid signature, every secret
\* and every options value, createAuthToken returns a token, and
\* verifyAuthToken of it with the same secret and options succeeds with the
\* AuthResult's publicKey and timestamp as claims.
C4_RoundTripAlways ==
  /\ last.op = "createAuthToken" /\ LastVerified => ~last.result.threw
  /\ last.op = "verifyAuthToken" => RoundTripOk

\* C4, amended: the round trip succeeds, at the instant of issuance, when
\* the secret is not empty, expiresIn is absent or a valid lifetime of at
\* least one second, and customClaims sets no reserved claim name.
C4_RoundTripWellFormed ==
  /\ last.op = "createAuthToken" /\ LastVerified /\ WellFormedCall => ~last.result.threw
  /\ last.op = "verifyAuthToken" /\ WellFormedCall => RoundTripOk

\* a token minted for Alice with issuer and audience was validated with the
\* same options and returned her key
C4_Witness ==
  /\ last.op = "verifyAuthToken"
  /\ last.auth = GenuineAuth(1, "hello", 1000)
  /\ last.options.audience = Str("demo-app")
  /\ WellFormedCall
  /\ RoundTripOk
  /\ Get(last.result.claims, "aud") = Str("demo-app")

Accepted == ~last.result.threw

Rejected ==
  /\ last.result.threw
  /\ last.result.error = "AuthTokenError"
  /\ last.result.claims = {}

\* verifyAuthToken was just called on the token in circulation
IssuedVerified ==
  /\ last.op = "verifyAuthToken"
  /\ issued.token.kind = "jwt"
  /\ last.token = issued.token

\* ... with the issuing secret and no expected options
PlainlyVerified ==
  /\ IssuedVerified
  /\ last.secret = issued.secret
  /\ ~last.options.passed

\* the lifetime L the token in circulation was minted with, in seconds
LifetimeOf(held) ==
  IF Specified(held.options) THEN Timespan(held.options.expiresIn, 0).n
  ELSE DayMs \div MsPerSecond

C5_WholeSeconds ==
  PlainlyVerified =>
    IF now \div MsPerSecond < issued.mintedAt \div MsPerSecond + LifetimeOf(issued)
    THEN Accepted ELSE Rejected

C5_NoReturn ==
  /\ now' >= now
  /\ issued.token.kind = "jwt" /\ issued'.token = issued.token =>
       issued'.mintedAt \div MsPerSecond + LifetimeOf(issued')
         = issued.mintedAt \div MsPerSecond + LifetimeOf(issued)

C7_ExpectedClaimsMatch ==
  last.op = "verifyAuthToken" =>
    LET payload == last.token.payload
        expected == last.options
    IN /\ Accepted /\ expected.audience # Undefined =>
            Get(payload, "aud") = expected.audience
       /\ Accepted /\ expected.issuer # Undefined =>
            Get(payload, "iss") = expected.issuer
       /\ expected.audience = Str("app-b")
            /\ Get(payload, "aud") \in {Str("app-a"), Undefined} => Rejected

\* an unexpired token minted with audience 'app-a' was rejected, under its
\* issuing secret, by a validator expecting 'app-b'
C7_Witness ==
  /\ IssuedVerified
  /\ last.secret = issued.secret
  /\ Get(issued.token.payload, "aud") = Str("app-a")
  /\ last.options.audience = Str("app-b")
  /\ now \div MsPerSecond < Get(issued.token.payload, "exp").n
  /\ Rejected

\* C8: after createAuthToken has minted a token from an AuthResult, no
\* later createAuthToken call with that same AuthResult mints another token.
C8_ConsumedOnce ==
  ~ /\ Minted
    /\ issued.token.kind = "jwt"
    /\ issued.mintedAt < now
    /\ last.auth = issued.auth

C9_ValidUntilExpiry ==
  PlainlyVerified /\ now \div MsPerSecond < Get(issued.token.payload, "exp").n
    => Accepted

C9_Stateless ==
  \A tok \in {issued.token}, s \in {issued.secret}, t \in {now'} :
    VerifyAuthToken(tok, s, Omitted, t)' = VerifyAuthToken(tok, s, Omitted, t)

\* C9: no step (logout, minting or storing further tokens, validations of
\* other tokens, the passing of time) changes what verifyAuthToken returns
\* for an issued token, its issuing secret and a given time; an unexpired
\* token
\* is accepted under its issuing secret whether or not the client still
\* holds it.
C9_NoRevocation == [](C9_ValidUntilExpiry) /\ [][C9_Stateless]_vars

\* after logout the discarded token was still accepted
C9_Witness ==
  /\ PlainlyVerified
  /\ ~stored
  /\ Accepted
  /\ Get(last.result.claims, "publicKey") = Str("pkAlice")

\* the value of claim k the call asked for: the custom claim when there is
\* one, the AuthResult's value otherwise
Requested(k, own) ==
  IF k \in Keys(last.options.customClaims)
  THEN Get(last.options.customClaims, k) ELSE own

OwnClaimsMerged ==
  /\ Get(last.result.token.payload, "publicKey")
       = Requested("publicKey", Str(last.auth.publicKey))
  /\ Get(last.result.token.payload, "timestamp")
       = Requested("timestamp", Num(last.auth.timestamp))

\* C11 as stated: a minted token has publicKey and timestamp of the
\* AuthResult unless customClaims sets them, in which case it has the
\* caller's values, and every custom claim is in the token with its value.
C11_EveryCustomClaimPresent ==
  Minted =>
    /\ OwnClaimsMerged
    /\ \A e \in last.options.customClaims :
         Get(last.result.token.payload, e[1]) = e[2]

\* C11, amended: the same, except that a custom claim iat with the value 0
\* is not in the token: the token's iat is then the time of issuance.
C11_CustomClaimsPresent ==
  Minted =>
    /\ OwnClaimsMerged
    /\ \A e \in last.options.customClaims :
         IF e[1] = "iat" /\ ~Truthy(e[2])
         THEN Get(last.result.token.payload, "iat") = Num(ClockTimestamp(now))
         ELSE Get(last.result.token.payload, e[1]) = e[2]

\* a token minted for Alice with customClaims { publicKey: pkBob } names Bob
C11_Witness ==
  /\ Minted
  /\ last.auth.publicKey = "pkAlice"
  /\ last.options.customClaims = {<<"publicKey", Str("pkBob")>>}
  /\ Get(last.result.token.payload, "publicKey") = Str("pkBob")
  /\ Get(last.result.token.payload, "timestamp") = Num(last.auth.timestamp)

\* what verifyAuthToken returns for the token of the last request
GateVerdict ==
  VerifyAuthToken(TokenOf(gate.authHeader), gate.secret, gate.options, gate.at)

\* C12: the middleware responds 401 without calling next exactly when the
\* header carries no token, responds 403 without calling next exactly when
\* a token is present and verifyAuthToken rejects it, and otherwise calls
\* next with req.user set to the decoded claims and sends no response.
C12_MiddlewareOutcomes ==
  gate.called =>
    /\ (gate.sent = <<401>> /\ gate.nextCalls = 0) <=> TokenMissing(gate.authHeader)
    /\ (gate.sent = <<403>> /\ gate.nextCalls = 0)
         <=> (~TokenMissing(gate.authHeader) /\ GateVerdict.threw)
    /\ ~TokenMissing(gate.authHeader) /\ ~GateVerdict.threw =>
         gate.nextCalls = 1 /\ gate.user = GateVerdict.claims /\ gate.sent = <<>>

\* C13: for every request the middleware either calls next once and sends
\* no response, or sends one response and does not call next.
C13_ContinueOrShortCircuit ==
  gate.called =>
    \/ gate.nextCalls = 1 /\ gate.sent = <<>>
    \/ gate.nextCalls = 0 /\ Len(gate.sent) = 1

\* whether the code units sub occur in s, consecutively
Contains(s, sub) ==
  \E i \in 0..(Len(s) - Len(sub)) : SubSeq(s, i + 1, i + Len(sub)) = sub

\* 'This action does not initiate any transaction or transfer any funds
\* from your wallet.'
Disclaimer == SubSeq(MessageMiddle, 4, Len(MessageMiddle) - 13)

\* 'Timestamp: '
TimestampLabel == SubSeq(MessageMiddle, Len(MessageMiddle) - 10, Len(MessageMiddle))

\* C14: generateMessage(id, ts) contains id, the text 'Timestamp: '
\* followed by the decimal ts, and the no-transaction disclaimer; and two
\* different pairs (id, ts) never give the same message.
C14_MessageInjective ==
  /\ \A g \in generated :
       /\ Contains(g.text, g.publicKey)
       /\ Contains(g.text, TimestampLabel \o Decimal(g.timestamp))
       /\ Contains(g.text, Disclaimer)
  /\ \A g \in generated, h \in generated :
       g.text = h.text => g.publicKey = h.publicKey /\ g.timestamp = h.timestamp

\* messages were generated for one key and the timestamps 1 and 11, and differ
C14_Witness ==
  \E g \in generated, h \in generated :
    /\ g.publicKey = <<65, 66>> /\ h.publicKey = <<65, 66>>
    /\ g.timestamp = 1 /\ h.timestamp = 11
    /\ g.text # h.text
    /\ Len(h.text) = Len(g.text) + 1

\* what `error instanceof class` needs to be for a specialised error: an
\* instance of its own class, of SolanaSSORError and of Error
OfItsClass(error, class) ==
  /\ InstanceOf(error, class)
  /\ InstanceOf(error, "SolanaSSORError")
  /\ InstanceOf(error, "Error")

ErrorConstructed == client.done.op = "new"

\* C15: every error built by a specialised class is an instance of that
\* class and of SolanaSSORError, and carries the class's name and code, so
\* that the failure kinds of the library can be told apart by instanceof.
C15_ErrorKinds ==
  ErrorConstructed =>
    LET error == client.done.error
        class == client.done.by
    IN /\ OfItsClass(error, class)
       /\ error.name = class
       /\ error.code = CodeOf(class)

\* what does hold: the kinds are told apart by name and code only
C15_KindsByNameAndCode ==
  ErrorConstructed =>
    LET error == client.done.error
        class == client.done.by
    IN /\ InstanceOf(error, "SolanaSSORError")
       /\ ~InstanceOf(error, class)
       /\ error.name = class
       /\ error.code = CodeOf(class)

\* the call that ended last
Ended(op) == client.done.op = op /\ client.done.settled # "none"

\* the kind of an error as a caller can read it: its name and its code
OfKind(error, class) ==
  /\ InstanceOf(error, "SolanaSSORError")
  /\ error.name = class
  /\ error.code = CodeOf(class)

RejectedWith(class) ==
  /\ client.done.settled = "rejected"
  /\ OfKind(client.done.error, class)

NotConnected ==
  \/ ~client.inst[client.done.by].wallet
  \/ client.wallet.publicKey = ""

\* authenticate() is rejected with WalletNotConnectedError without a
\* signing request exactly when the wallet is not connected at the call
RejectedIffNotConnected ==
  /\ (Ended("authenticate") /\ NotConnected) =>
       RejectedWith("WalletNotConnectedError") /\ client.done.requests = 0
  /\ (Ended("authenticate") /\ client.done.requests = 0) =>
       RejectedWith("WalletNotConnectedError") /\ NotConnected
  /\ client.pending.op = "authenticate" =>
       /\ client.inst[client.pending.by].wallet
       /\ client.pending.publicKey # ""
       /\ client.pending.publicKey = client.wallet.publicKey

\* the instance of the call that ended last never connected, or its
\* disconnect() has completed since
NeverConnectedOrDisconnected ==
  \/ ~client.inst[client.done.by].connected
  \/ client.inst[client.done.by].disconnected

Authenticated == Ended("authenticate") /\ client.done.settled = "resolved"

\* the message generated from the fields of the AuthResult itself
GeneratedFor(auth) == GenerateMessage(PublicKeyUnits[auth.publicKey], auth.timestamp)

\* C18 (as stated): the AuthResult of authenticate(m) has message m for
\* every string m the caller supplies, and without m its message is
\* generateMessage of its own publicKey and timestamp.
C18_MessageVerbatimOrGenerated ==
  Authenticated =>
    LET auth == client.done.auth
        custom == client.done.custom
    IN auth.message = IF custom.supplied THEN custom.text ELSE GeneratedFor(auth)

\* C18 (amended): the AuthResult of authenticate(m) has message m for every
\* non-empty string m the caller supplies; without m, and for the empty
\* string, its message is generateMessage of its own publicKey and
\* timestamp. The wallet was asked to sign that same message.
C18_MessageCustomOrGenerated ==
  Authenticated =>
    LET auth == client.done.auth
        custom == client.done.custom
    IN /\ auth.message = IF custom.supplied /\ custom.text # <<>>
                         THEN custom.text ELSE GeneratedFor(auth)
       /\ auth.signature.bytes = auth.message
       /\ auth.publicKey \in WalletAccounts

\* a generated message whose timestamp is earlier than the time of return
C18_Witness ==
  /\ Authenticated
  /\ ~client.done.custom.supplied
  /\ client.done.auth.timestamp < now
  /\ client.done.auth.message = GeneratedFor(client.done.auth)

\* getStatus() reports { isConnected: true, publicKey: the wallet's key }
ReportsConnected ==
  /\ client.done.flag
  /\ client.done.text = client.wallet.publicKey
  /\ client.done.text \in WalletAccounts

\* getStatus() reports { isConnected: false, publicKey: null }
ReportsDisconnected == ~client.done.flag /\ client.done.text = ""

\* after a connect() that succeeded, with no disconnect() completed since,
\* getStatus() reports the connection
StatusAfterConnect ==
  (Ended("getStatus") /\ client.link = "connected") => ReportsConnected

\* disconnect() rejects only with the error of a wallet request that failed
DisconnectRejectsOnlyOnFailure ==
  Ended("disconnect") =>
    \/ client.done.settled = "resolved" /\ ~client.done.failed
    \/ /\ client.done.settled = "rejected"
       /\ client.done.failed
       /\ client.done.requests = 1
       /\ \E tag \in WalletFailures : client.done.error = PlainError(tag)

\* C19 (as stated): after connect() succeeds getStatus() reports the
\* connection with the wallet's key; after disconnect() completes it
\* reports isConnected = false and publicKey = null; and disconnect() with
\* nothing connected, or without a wallet, resolves.
C19_StatusFollowsOperations ==
  /\ StatusAfterConnect
  /\ (Ended("getStatus") /\ client.link = "disconnected") => ReportsDisconnected
  /\ (Ended("disconnect") /\ client.wallet.publicKey = "") =>
       client.done.settled = "resolved"

\* C19 (amended): after connect() succeeds getStatus() reports the
\* connection with the wallet's key; after disconnect() completes on a
\* wallet that has a disconnect function it reports isConnected = false and
\* publicKey = null; disconnect() resolves without a request when there is
\* no wallet or the wallet has no disconnect function, and otherwise
\* resolves unless the wallet's disconnect request fails, whose error it
\* throws on.
C19_StatusFollowsWallet ==
  /\ StatusAfterConnect
  /\ (Ended("getStatus") /\ client.link = "disconnected"
        /\ client.wallet.hasDisconnect) => ReportsDisconnected
  /\ (Ended("disconnect") /\ client.done.requests = 0) =>
       /\ client.done.settled = "resolved"
       /\ ~(client.inst[client.done.by].wallet /\ client.wallet.hasDisconnect)
  /\ DisconnectRejectsOnlyOnFailure

\* an instance that had connected reports no connection after disconnect()
C19_Witness ==
  /\ Ended("getStatus")
  /\ client.link = "disconnected"
  /\ client.wallet.hasDisconnect
  /\ client.inst[client.done.by].connected
  /\ client.inst[client.done.by].disconnected
  /\ ReportsDisconnected

\* a connection attempt or a signing request of the SDK failed at the wallet
RequestFailed ==
  /\ client.done.op \in {"connect", "authenticate"}
  /\ client.done.failed

\* the error kind that belongs to a failed request
KindOfFailure ==
  IF client.done.op = "connect" THEN "WalletConnectionError" ELSE "SigningError"

\* C20: every connection attempt or signing request of the SDK that fails
\* at the wallet fails the call with WalletConnectionError or SigningError,
\* the connection attempts started by the constructor (autoConnect)
\* included; none is swallowed.
C20_NoFailureSwallowed ==
  RequestFailed =>
    /\ client.done.settled = "rejected"
    /\ OfKind(client.done.error, KindOfFailure)
    /\ client.done.error.originalError \in WalletFailures

\* what does hold: a failed request of connect() or authenticate() called
\* by the application fails that call
C20_CalledOnesSignalled ==
  (RequestFailed /\ ~client.done.auto) =>
    /\ client.done.settled = "rejected"
    /\ OfKind(client.done.error, KindOfFailure)
    /\ client.done.error.originalError \in WalletFailures

\* the first and the latest call of verifySignature had the same arguments
SameArguments ==
  /\ logger.first.made
  /\ logger.latest.made
  /\ logger.first.signature = logger.latest.signature
  /\ logger.first.message = logger.latest.message
  /\ logger.first.publicKey = logger.latest.publicKey

DeliveredOnce ==
  /\ Len(logger.emitted) = 1
  /\ logger.emitted[1].level = logger.call.level
  /\ logger.emitted[1].message = logger.call.message
  /\ IF logger.customLogger # ""
     THEN /\ logger.emitted[1].sink = logger.customLogger
          /\ logger.emitted[1].sink # "console"
     ELSE /\ logger.emitted[1].sink = "console"
          /\ logger.emitted[1].method =
               (IF logger.call.level \in {"debug", "info"} THEN "log"
                ELSE logger.call.level)

Routed ==
  logger.call.level \in LogLevels =>
    IF logger.call.level = "debug" /\ ~logger.debugEnabled
    THEN logger.emitted = <<>>
    ELSE DeliveredOnce

\* a step of configure: a setting that is given is set (null removes the
\* custom logger), one that is not given stays
Configured ==
  logger'.call.level = "configure" =>
    /\ logger'.debugEnabled =
         (IF logger'.call.debug = "undefined" THEN logger.debugEnabled
          ELSE logger'.call.debug = "true")
    /\ logger'.customLogger =
         (IF logger'.call.customLogger = "undefined" THEN logger.customLogger
          ELSE IF logger'.call.customLogger = "null" THEN ""
          ELSE logger'.call.customLogger)

\* C22: a debug call writes nothing when debug is disabled; every other
\* log call, and debug when enabled, is delivered to exactly one sink: the
\* custom logger when one is set, else the console method of its level
\* (log for debug and info, warn, error); configure sets what it is given,
\* null restoring the console, and leaves the rest unchanged.
C22_LoggerRouting == [](Routed) /\ [][Configured]_vars

\* a warning delivered to the custom logger
C22_Witness ==
  /\ logger.call.level = "warn"
  /\ logger.customLogger = "fnA"
  /\ logger.emitted = <<Emission("fnA", "call", "warn", "Test message", 0)>>

\* the providers in the order of priority, "" where there is none
Priority ==
  <<PhantomSolana(window), window.solflare, window.sollet, window.slope>>

Present == {k \in 1..4 : Priority[k] # ""}

\* C23: detectWallet returns the very object of the first provider present
\* in the order Phantom (window.phantom.solana), Solflare, Sollet, Slope,
\* and null exactly when none of the four is present or there is no window.
C23_FirstProviderPresent ==
  window.detected # "none" =>
    /\ (window.detected = "null") <=> (~window.present \/ Present = {})
    /\ window.detected # "null" =>
         \E k \in Present :
           /\ window.detected = Priority[k]
           /\ \A j \in Present : k <= j

\* Solflare is returned although Sollet and Slope are present, and a
\* phantom object without solana
C23_Witness ==
  /\ window.detected = "solflareWallet"
  /\ window.phantom = "{}"
  /\ window.sollet # ""
  /\ window.slope # ""

\* how many times the last call logged the message
Logged(message) ==
  Cardinality({k \in DOMAIN logger.emitted : logger.emitted[k].message = message})

\* C24: a createAuthToken call verifies the signature exactly once, on the
\* signature, message and key of that call, and its outcome is the one
\* those arguments determine, whatever tokens were minted before and
\* whatever AuthResult they were minted for.
C24_OneVerificationPerCall ==
  last.op = "createAuthToken" =>
    /\ logger.debugEnabled => Logged("Verifying signature") = 1
    /\ (last.result.error = "SignatureVerificationError") <=> ~LastVerified
    /\ ~last.result.threw => LastVerified
    /\ last.result = CreateAuthToken(last.auth, last.secret, last.options, now)

\* after a token was minted for Alice's signature, a call with the same
\* signature and key and a tampered message is verified and refused
C24_Witness ==
  /\ last.op = "createAuthToken"
  /\ stored
  /\ issued.auth.signature = last.auth.signature
  /\ issued.auth.publicKey = last.auth.publicKey
  /\ issued.auth.message # last.auth.message
  /\ logger.debugEnabled
  /\ Logged("Verifying signature") = 1
  /\ last.result.error = "SignatureVerificationError"

\* the header of the last request is 'Bearer <token>'
BearerForm ==
  /\ gate.authHeader.present
  /\ Len(gate.authHeader.words) = 2
  /\ gate.authHeader.words[1] = SchemeWord
  /\ gate.authHeader.words[2].kind \notin {"empty", "scheme", "otherScheme"}

\* C25: the middleware calls next only for a request whose Authorization
\* header is 'Bearer <token>' with a token verifyAuthToken accepts; a valid
\* token under another scheme word, or in a header of another shape, is
\* not let through.
C25_BearerOnly ==
  (gate.called /\ gate.nextCalls > 0) =>
    /\ BearerForm
    /\ ~VerifyAuthToken(gate.authHeader.words[2], gate.secret, gate.options,
                        gate.at).threw

\* what does hold: next is called only for a header whose second word is a
\* token verifyAuthToken accepts, whatever the first word is
C25_SecondWordAccepted ==
  (gate.called /\ gate.nextCalls > 0) =>
    /\ gate.authHeader.present
    /\ Len(gate.authHeader.words) >= 2
    /\ ~VerifyAuthToken(gate.authHeader.words[2], gate.secret, gate.options,
                        gate.at).threw

\* C26: POST /api/verify with a token that /api/auth issued and that is
\* still valid answers success: true with the publicKey of the token;
\* without a token it answers 400, with an invalid token an error status.
C26_VerifyEndpoint ==
  demo.path = "/api/verify" =>
    IF demo.body.kind = "none" THEN demo.response.status = 400
    ELSE IF demo.body = issued.token /\ ValidNow(demo.body, demo.at)
    THEN /\ demo.response.status = 200
         /\ demo.response.success
         /\ Str(demo.response.publicKey) = Get(demo.body.payload, "publicKey")
    ELSE demo.response.status >= 400 /\ ~demo.response.success

\* what does hold: /api/verify answers 400 without a token and 403 with
\* any token, valid or not
C26_VerifyAlwaysRefuses ==
  demo.path = "/api/verify" =>
    /\ ~demo.response.success
    /\ demo.response.status = IF demo.body.kind = "none" THEN 400 ELSE 403

\* C27: a valid, unexpired token in localStorage at page load survives the
\* load-time verification (the user ends up shown as logged in, the token
\* still stored); the stored token is removed only by logout, by wallet
\* disconnect, or by a failed verification of a token that is invalid.
\* Here: whenever the last removal was made by the load-time verification
\* (by its answer, or by its request failing), the token was invalid then.
C27_SessionPersists ==
  demo.removedBy \in {"verification", "network"} => ~demo.removedValid

\* what does hold: no load-time verification ends with the user shown as
\* logged in; each one ends in logout()
C27_LoadAlwaysLogsOut == demo.loaded \in {"none", "rejected", "failed"}

\* C28: every AuthResult that authenticate() returns verifies: its
\* signature is the wallet's signature over the bytes of its message,
\* made by the key in its publicKey field, also when the wallet's account
\* changed or the wallet was disconnected during the signing request.
C28_AuthResultSelfConsistent ==
  Authenticated =>
    ClientVerify(client.done.auth.signature, client.done.auth.message,
                 client.done.auth.publicKey)

\* what does hold: the signature is over the bytes of the message of the
\* result, by the account the wallet had when it signed
C28_SignedMessageIsReturned ==
  Authenticated =>
    /\ client.done.auth.signature.bytes = client.done.auth.message
    /\ client.done.auth.signature.signer \in WalletAccounts
    /\ client.done.auth.publicKey \in WalletAccounts

\* the times at which authenticate() can be called
CallTimes == {MsPerSecond + k * TickMs : k \in 0..MaxWaits}

\* C29: a token minted from an AuthResult whose message is
\* generateMessage(publicKey, t) has t as its timestamp claim, whatever
\* timestamp field the client submitted.
C29_TimestampIsTheSignedOne ==
  Minted =>
    \A t \in CallTimes :
      last.auth.message = GenerateMessage(PublicKeyUnits[last.auth.publicKey], t) =>
        Get(last.result.token.payload, "timestamp") = Num(t)

\* what does hold: the timestamp claim is the timestamp field submitted
C29_TimestampIsTheSubmittedField ==
  Minted => Get(last.result.token.payload, "timestamp") = Num(last.auth.timestamp)

\* the sinks and levels of what the last call wrote, in order
Written == [k \in 1..Len(logger.emitted) |->
              <<logger.emitted[k].sink, logger.emitted[k].level>>]

\* what authenticate() writes under the options of one instance
WrittenUnder(own) ==
  LET sink == IF own.customLogger \in LoggerFunctions THEN own.customLogger
              ELSE "console"
  IN (IF own.debug = "true" THEN <<<<sink, "debug">>>> ELSE <<>>)
       \o <<<<sink, "error">>>>

\* C30: constructing another SolanaAuth does not disturb the logging of an
\* instance: what is logged on behalf of an instance created with debug:
\* true and/or a custom logger is emitted according to its own options.
C30_OwnLoggingOptions ==
  logger.call.by \in Instances =>
    LET own == logger.owners[logger.call.by]
    IN own.debug = "true" \/ own.customLogger \in LoggerFunctions =>
         Written = WrittenUnder(own)

\* what does hold: every instance logs under the settings the logger of
\* the process has at the time
C30_SharedSettings ==
  logger.call.by \in Instances =>
    Written = WrittenUnder(LoggingOptions(TRUE,
                IF logger.debugEnabled THEN "true" ELSE "false",
                IF logger.customLogger = "" THEN "undefined"
                ELSE logger.customLogger))

====
